---- MODULE Spec2Model ----
\* Model of github.com/delicb/cliware (cliware.go): Handler / Middleware,
\* the RequestProcessor, ResponseProcessor and ContextProcessor adapters and
\* the Chain type, driven by a client that builds chains, composes handlers
\* with Exec and runs them with Handle.
EXTENDS Integers, Sequences, FiniteSets, TLC

VARIABLES
    chains,     \* heap of *Chain: chains[c] = [middlewares |-> slice, parent |-> 0 or c']
    arrays,     \* heap of backing arrays of []Middleware slices
    copyOf,     \* the client's record of Copy: copyOf[c] = the chain c was copied from, or 0
    handlers,   \* handlers returned by Chain.Exec and kept by the client
    stack,      \* call stack of the running Handle call (last = innermost frame)
    ret,        \* (resp, err) pair being returned to the top frame, or NoRet
    call,       \* the client's current Handle call, or NoCall
    requests,   \* heap of *http.Request: requests[r] = the request, << >> when dropped
    trace,      \* what the current Handle call did, in order
    execStack,  \* call stack of the running Chain.Exec call (last = innermost frame)
    execLog,    \* what the latest Chain.Exec call did, in order
    appending   \* the Use call of a second thread: where it is, or NoUse

vars == <<chains, arrays, copyOf, handlers, stack, ret, call, requests, trace,
         execStack, execLog, appending>>

chainVars == <<chains, arrays, copyOf>>
execVars == <<execStack, execLog, appending>>
runVars == <<stack, ret, call, requests, trace, execVars>>

-----------------------------------------------------------------------------
\* Bounds of the model.

\* Objects the client holds: chains, the middlewares registered in them and
\* the handlers composed from them.
MaxObjects == 5

-----------------------------------------------------------------------------
\* Values.

\* nil for responses, errors and functions.
Nil == "nil"
\* The zero value of the Middleware interface.
NilMiddleware == [kind |-> "nil", fn |-> Nil]
\* A nil []Middleware.
NilSlice == [arr |-> 0, len |-> 0, cap |-> 0]

\* Functions of type func(*http.Request) error the client registers.
RequestFuncs == {"setX"}
\* Functions of type func(*http.Response, error) error.
ResponseFuncs == {"check"}
\* Functions of type func(context.Context) context.Context.
ContextFuncs == {"withK"}
\* Functions of type func(Handler) Handler: each wraps next in a handler that
\* only calls next (createMiddleware of the tests).
MiddlewareFuncs == {"wrap"}

RequestProcessor(f) == [kind |-> "RequestProcessor", fn |-> f]
ResponseProcessor(f) == [kind |-> "ResponseProcessor", fn |-> f]
ContextProcessor(f) == [kind |-> "ContextProcessor", fn |-> f]
MiddlewareFunc(f) == [kind |-> "MiddlewareFunc", fn |-> f]

\* A *Chain as a Middleware value (Chain has an Exec method): the chain c.
ChainRef(c) == [kind |-> "Chain", fn |-> ToString(c)]

\* The Middleware values the client has at hand.
Pool ==
    {RequestProcessor(f) : f \in RequestFuncs}
    \cup {ResponseProcessor(f) : f \in ResponseFuncs}
    \cup {ContextProcessor(f) : f \in ContextFuncs}
    \cup {MiddlewareFunc(f) : f \in MiddlewareFuncs}

\* Terminal handlers the client composes around.
Terminals == {"h1", "h2"}
HandlerFunc(f) == [kind |-> "HandlerFunc", fn |-> f]

\* Errors a processor function may return, and the one of the terminal handler.
ProcErrors == {"e1", "e2"}
TermErrors == {"e0"}
Responses == {"r1"}

\* context.Background().
Background == << >>

NoRet == [resp |-> "none", err |-> "none"]
\* No Use call is running in a second thread.
NoUse == [pc |-> "none"]
NoCall == [hid |-> 0, ctx |-> Background, req |-> 0]

SeqsUpTo(S, n) == UNION {[1..k -> S] : k \in 0..n}

RECURSIVE SumLen(_, _)
SumLen(chs, i) == IF i = 0 THEN 0 ELSE chs[i].middlewares.len + SumLen(chs, i - 1)
\* Registrations over all chains.
Total == SumLen(chains, Len(chains))
\* Objects held.
Objects == Len(chains) + Total + Len(handlers)

-----------------------------------------------------------------------------
\* Go slices of Middleware.

\* A collected array, and the index the allocator gives the next array: the
\* first collected one, or a new one.
Freed == << >>
Alloc(arrs) ==
    IF \E i \in DOMAIN arrs : arrs[i] = Freed
    THEN CHOOSE i \in DOMAIN arrs :
            arrs[i] = Freed /\ \A j \in DOMAIN arrs : arrs[j] = Freed => i <= j
    ELSE Len(arrs) + 1
Store(arrs, i, a) == IF i <= Len(arrs) THEN [arrs EXCEPT ![i] = a] ELSE Append(arrs, a)
\* The arrays the chains' slices point to, in the order of the chains.
RECURSIVE Live(_, _, _)
Live(chs, c, acc) ==
    IF c > Len(chs) THEN acc
    ELSE LET a == chs[c].middlewares.arr IN
         Live(chs, c + 1,
              IF a = 0 \/ \E k \in DOMAIN acc : acc[k] = a THEN acc ELSE Append(acc, a))
\* The garbage collector: <<arrays, chains>> after it ran. Arrays no chain's
\* slice points to are collected and the others moved together, in the order
\* of the chains that point to them.
Collect(arrs, chs) ==
    LET live == Live(chs, 1, << >>)
        moved(a) == IF a = 0 THEN 0 ELSE CHOOSE k \in DOMAIN live : live[k] = a
    IN <<[k \in DOMAIN live |-> arrs[live[k]]],
         [c \in DOMAIN chs |-> [chs[c] EXCEPT !.middlewares.arr = moved(@)]]>>

\* The elements s[0:len(s)].
Elems(arrs, s) == [i \in 1..s.len |-> arrs[s.arr][i]]

\* The capacity of the array append allocates when a slice of capacity old
\* must hold need elements: the language leaves it to the implementation
\* (any capacity >= need). The gc runtime doubles small slices.
GrowCap(old, need) == IF need > 2 * old THEN need ELSE 2 * old
GrowCaps(old, need) == {need, need + 1, GrowCap(old, need)}

\* The capacities append(s, ms...) may leave the result with.
AppendCaps(s, n) ==
    IF n = 0 \/ s.len + n <= s.cap THEN {s.cap} ELSE GrowCaps(s.cap, s.len + n)

\* append(s, ms...): <<arrays after, resulting slice>>. Within capacity the
\* elements are written into the backing array of s; beyond, a new array of
\* capacity newcap is allocated and s[0:len] copied to it.
AppendSlice(arrs, s, ms, newcap) ==
    LET need == s.len + Len(ms) IN
    IF Len(ms) = 0 THEN <<arrs, s>>
    ELSE IF need <= s.cap
    THEN <<[arrs EXCEPT ![s.arr] =
                [i \in 1..s.cap |->
                    IF i > s.len /\ i <= need THEN ms[i - s.len] ELSE @[i]]],
           [s EXCEPT !.len = need]>>
    ELSE LET new == [i \in 1..newcap |->
                        IF i <= s.len THEN arrs[s.arr][i]
                        ELSE IF i <= need THEN ms[i - s.len]
                        ELSE NilMiddleware]
         IN <<Store(arrs, Alloc(arrs), new),
              [arr |-> Alloc(arrs), len |-> need, cap |-> newcap]>>

\* The slice a variadic call f(m1, ..., mn) passes: nil for no arguments, else
\* a fresh array of exactly the arguments.
Variadic(arrs, ms) ==
    IF Len(ms) = 0 THEN <<arrs, NilSlice>>
    ELSE <<Store(arrs, Alloc(arrs), ms),
           [arr |-> Alloc(arrs), len |-> Len(ms), cap |-> Len(ms)]>>

\* The slice a call f(s...) passes, for s := make([]Middleware, len(ms), cap)
\* filled with ms: s itself, spare capacity included.
Spread(arrs, ms, cap) ==
    <<Store(arrs, Alloc(arrs), [i \in 1..cap |-> IF i <= Len(ms) THEN ms[i] ELSE NilMiddleware]),
      [arr |-> Alloc(arrs), len |-> Len(ms), cap |-> cap]>>

\* Copy without the call of copy: the new slice keeps its zero values.
MakeCopyNoCopy(arrs, s) ==
    IF s.len = 0 THEN <<arrs, NilSlice>>
    ELSE <<Store(arrs, Alloc(arrs), [i \in 1..s.len |-> NilMiddleware]),
           [arr |-> Alloc(arrs), len |-> s.len, cap |-> s.len]>>

\* middlewareCopy := make([]Middleware, len(s)); copy(middlewareCopy, s):
\* <<arrays after, middlewareCopy>>. An array of no elements takes no room in
\* the heap of arrays.
MakeCopy(arrs, s) ==
    IF s.len = 0 THEN <<arrs, NilSlice>>
    ELSE <<Store(arrs, Alloc(arrs), [i \in 1..s.len |-> arrs[s.arr][i]]),
           [arr |-> Alloc(arrs), len |-> s.len, cap |-> s.len]>>

-----------------------------------------------------------------------------
\* Chain accessors.

\* c.Middlewares(), as the sequence of its elements.
Middlewares(c) == Elems(arrays, chains[c].middlewares)
\* c.Parent(): 0 is nil.
Parent(c) == chains[c].parent

\* The middlewares of a chain's ancestors, outermost ancestor first, then its own.
RECURSIVE Flat(_)
Flat(c) == IF Parent(c) = 0 THEN Middlewares(c) ELSE Flat(Parent(c)) \o Middlewares(c)

-----------------------------------------------------------------------------
\* Composition: the Exec methods. A Handler is the closure Exec returns:
\* [kind, fn, next] for a handler that wraps next, [kind, fn] for a terminal one.

\* RequestProcessor.Exec(handler): the closure over rp and handler.
RequestProcessorExec(m, handler) == [kind |-> m.kind, fn |-> m.fn, next |-> handler]
\* ResponseProcessor.Exec(handler).
ResponseProcessorExec(m, handler) == [kind |-> m.kind, fn |-> m.fn, next |-> handler]
\* ContextProcessor.Exec(handler).
ContextProcessorExec(m, handler) == [kind |-> m.kind, fn |-> m.fn, next |-> handler]
\* MiddlewareFunc.Exec(handler) == mf(handler): the handler the function builds.
MiddlewareFuncExec(m, handler) == [kind |-> m.kind, fn |-> m.fn, next |-> handler]

\* The chain a Middleware value that is a *Chain points to.
ChainOf(m) == CHOOSE c \in 1..Len(chains) : ToString(c) = m.fn

\* Exec that passes a chain registered as a middleware by: it returns the
\* handler it was given.
MiddlewareExecSkipsChain(m, handler) ==
    IF m.kind = "Chain" THEN handler
    ELSE [kind |-> m.kind, fn |-> m.fn, next |-> handler]
RECURSIVE ChainExec(_, _, _, _)
\* m.Exec(handler) for the Middleware values of the pool, and for a chain
\* that was registered as a middleware.
MiddlewareExec(m, handler) ==
    CASE m.kind = "RequestProcessor" -> RequestProcessorExec(m, handler)
      [] m.kind = "ResponseProcessor" -> ResponseProcessorExec(m, handler)
      [] m.kind = "ContextProcessor" -> ContextProcessorExec(m, handler)
      [] m.kind = "MiddlewareFunc" -> MiddlewareFuncExec(m, handler)
      [] m.kind = "Chain" -> ChainExec(chains, arrays, ChainOf(m), handler)

\* Chain.Exec with the loop running from the first middleware to the last.
RECURSIVE ExecLoopForward(_, _, _)
ExecLoopForward(ms, i, finalHandler) ==
    IF i < 1 THEN finalHandler
    ELSE ExecLoopForward(ms, i - 1, MiddlewareExec(ms[Len(ms) + 1 - i], finalHandler))

\* The loop of Chain.Exec: for i := len-1; i >= 0; i-- { final = ms[i].Exec(final) }
\* (ms is 1-based here, i counts down from Len(ms)).
RECURSIVE ExecLoop(_, _, _)
ExecLoop(ms, i, finalHandler) ==
    IF i < 1 THEN finalHandler
    ELSE ExecLoop(ms, i - 1, MiddlewareExec(ms[i], finalHandler))

\* Chain.Exec with the parent's Exec applied to handler before the own loop.
RECURSIVE ChainExecParentInside(_, _, _, _)
ChainExecParentInside(chs, arrs, c, handler) ==
    LET ms == Elems(arrs, chs[c].middlewares)
        inner == IF chs[c].parent # 0
                 THEN ChainExecParentInside(chs, arrs, chs[c].parent, handler)
                 ELSE handler
    IN ExecLoop(ms, Len(ms), inner)

\* Chain.Exec that composes the own middlewares and never asks the parent.
ChainExecOwnOnly(chs, arrs, c, handler) ==
    LET ms == Elems(arrs, chs[c].middlewares)
    IN ExecLoop(ms, Len(ms), handler)

\* c.Exec(handler): own middlewares first, then the parent's Exec around them.
ChainExec(chs, arrs, c, handler) ==
    LET ms == Elems(arrs, chs[c].middlewares)
        finalHandler == ExecLoop(ms, Len(ms), handler)
    IN IF chs[c].parent # 0
       THEN ChainExec(chs, arrs, chs[c].parent, finalHandler)
       ELSE finalHandler

-----------------------------------------------------------------------------
\* The client is between calls: no Handle call and no Exec call is running.
Idle == call = NoCall /\ execStack = << >>

Init ==
    /\ chains = << >>
    /\ arrays = << >>
    /\ copyOf = << >>
    /\ handlers = << >>
    /\ stack = << >>
    /\ ret = NoRet
    /\ call = NoCall
    /\ requests = << << >> >>
    /\ trace = << >>
    /\ execStack = << >>
    /\ execLog = << >>
    /\ appending = NoUse

\* Room for n more objects.
Room(n) == Objects + n <= MaxObjects

\* NewChain(ms...)
NewChain(ms) ==
    /\ Idle
    /\ Room(1 + Len(ms))
    /\ LET v == Variadic(arrays, ms) IN
        /\ arrays' = v[1]
        /\ chains' = Append(chains, [middlewares |-> v[2], parent |-> 0])
    /\ copyOf' = Append(copyOf, 0)
    /\ UNCHANGED <<handlers, runVars>>

\* ChildChain that forgets the receiver.
ChildChainNoParent(c, ms) ==
    /\ Idle
    /\ Room(1 + Len(ms))
    /\ LET v == Variadic(arrays, ms) IN
        /\ arrays' = v[1]
        /\ chains' = Append(chains, [middlewares |-> v[2], parent |-> 0])
    /\ copyOf' = Append(copyOf, 0)
    /\ UNCHANGED <<handlers, runVars>>

\* c.ChildChain(ms...)
ChildChain(c, ms) ==
    /\ Idle
    /\ Room(1 + Len(ms))
    /\ LET v == Variadic(arrays, ms) IN
        /\ arrays' = v[1]
        /\ chains' = Append(chains, [middlewares |-> v[2], parent |-> c])
    /\ copyOf' = Append(copyOf, 0)
    /\ UNCHANGED <<handlers, runVars>>

\* NewChain(s...) for a slice s the caller holds: v = <<arrays, s>>. The
\* chain stores s itself.
NewChainSlice(v) ==
    /\ Idle
    /\ Room(1 + v[2].len)
    /\ arrays' = v[1]
    /\ chains' = Append(chains, [middlewares |-> v[2], parent |-> 0])
    /\ copyOf' = Append(copyOf, 0)
    /\ UNCHANGED <<handlers, runVars>>

\* c.ChildChain(s...) for a slice s the caller holds.
ChildChainSlice(c, v) ==
    /\ Idle
    /\ Room(1 + v[2].len)
    /\ arrays' = v[1]
    /\ chains' = Append(chains, [middlewares |-> v[2], parent |-> c])
    /\ copyOf' = Append(copyOf, 0)
    /\ UNCHANGED <<handlers, runVars>>

\* Copy that hands the receiver's parent on to the copy.
CopyKeepsParent(c) ==
    /\ Idle
    /\ Room(1 + chains[c].middlewares.len)
    /\ LET v == MakeCopy(arrays, chains[c].middlewares) IN
        /\ arrays' = v[1]
        /\ chains' = Append(chains, [middlewares |-> v[2], parent |-> chains[c].parent])
    /\ copyOf' = Append(copyOf, c)
    /\ UNCHANGED <<handlers, runVars>>

\* c.Copy()
Copy(c) ==
    /\ Idle
    /\ Room(1 + chains[c].middlewares.len)
    /\ LET v == MakeCopy(arrays, chains[c].middlewares) IN
        /\ arrays' = v[1]
        /\ chains' = Append(chains, [middlewares |-> v[2], parent |-> 0])
    /\ copyOf' = Append(copyOf, c)
    /\ UNCHANGED <<handlers, runVars>>

\* An append that registers the middlewares in the parent of the chain too.
AppendToWithParent(c, ms) ==
    \E newcap \in AppendCaps(chains[c].middlewares, Len(ms)) :
        LET a == AppendSlice(arrays, chains[c].middlewares, ms, newcap)
            chs == [chains EXCEPT ![c].middlewares = a[2]]
            p == chains[c].parent
        IN IF p = 0
           THEN /\ arrays' = Collect(a[1], chs)[1]
                /\ chains' = Collect(a[1], chs)[2]
           ELSE \E pcap \in AppendCaps(chs[p].middlewares, Len(ms)) :
                LET b == AppendSlice(a[1], chs[p].middlewares, ms, pcap)
                    both == [chs EXCEPT ![p].middlewares = b[2]]
                IN /\ arrays' = Collect(b[1], both)[1]
                   /\ chains' = Collect(b[1], both)[2]
\* c.middlewares = append(c.middlewares, ms...)
AppendTo(c, ms) ==
    \E newcap \in AppendCaps(chains[c].middlewares, Len(ms)) :
        LET a == AppendSlice(arrays, chains[c].middlewares, ms, newcap)
            chs == [chains EXCEPT ![c].middlewares = a[2]]
        IN /\ arrays' = Collect(a[1], chs)[1]
           /\ chains' = Collect(a[1], chs)[2]

\* c.Use(m)
Use(c, m) ==
    /\ Idle
    /\ Room(1)
    /\ AppendTo(c, <<m>>)
    /\ UNCHANGED <<copyOf, handlers, runVars>>

\* UseAll that registers its arguments last first.
UseAllReversed(c, ms) ==
    /\ Idle
    /\ Room(Len(ms))
    /\ AppendTo(c, [i \in 1..Len(ms) |-> ms[Len(ms) + 1 - i]])
    /\ UNCHANGED <<copyOf, handlers, runVars>>

\* c.UseAll(ms...)
UseAll(c, ms) ==
    /\ Idle
    /\ Room(Len(ms))
    /\ AppendTo(c, ms)
    /\ UNCHANGED <<copyOf, handlers, runVars>>

\* UseFunc that registers the function twice.
UseFuncTwice(c, f) ==
    /\ Idle
    /\ Room(2)
    /\ AppendTo(c, <<MiddlewareFunc(f), MiddlewareFunc(f)>>)
    /\ UNCHANGED <<copyOf, handlers, runVars>>

\* c.UseFunc(f)
UseFunc(c, f) ==
    /\ Idle
    /\ Room(1)
    /\ AppendTo(c, <<MiddlewareFunc(f)>>)
    /\ UNCHANGED <<copyOf, handlers, runVars>>

\* c.UseRequest(f): c.Use(RequestProcessor(f))
UseRequest(c, f) == Use(c, RequestProcessor(f))

\* c.UseResponse(f): c.Use(ResponseProcessor(f))
UseResponse(c, f) == Use(c, ResponseProcessor(f))

\* Exec that calls the terminal handler while composing.
ExecCallsTerminal(c, t) ==
    /\ Idle
    /\ Room(1)
    /\ handlers' = Append(handlers,
            [h |-> ChainExec(chains, arrays, c, HandlerFunc(t)),
             chain |-> c, terminal |-> t, seq |-> Flat(c)])
    /\ trace' = <<[ev |-> "term", depth |-> 0, m |-> HandlerFunc(t), ctx |-> Background,
                   req |-> 0, resp |-> Nil, err |-> Nil, out |-> "none", seen |-> << >>]>>
    /\ UNCHANGED <<chainVars, stack, ret, call, requests, execVars>>

\* Exec that composes around one and the same terminal handler.
ExecSameTerminal(c, t) ==
    /\ Idle
    /\ Room(1)
    /\ handlers' = Append(handlers,
            [h |-> ChainExec(chains, arrays, c, HandlerFunc("h1")),
             chain |-> c, terminal |-> t, seq |-> Flat(c)])
    /\ UNCHANGED <<chainVars, runVars>>

\* h := c.Exec(HandlerFunc(t)), kept by the client together with what it was
\* composed of: the chain, the terminal handler, and the middlewares the chain
\* and its ancestors held at that time.
Exec(c, t) ==
    /\ Idle
    /\ Room(1)
    /\ handlers' = Append(handlers,
            [h |-> ChainExec(chains, arrays, c, HandlerFunc(t)),
             chain |-> c, terminal |-> t, seq |-> Flat(c)])
    /\ UNCHANGED <<chainVars, runVars>>

-----------------------------------------------------------------------------
\* Chain.Exec, statement by statement.

\* The frame of c.Exec(handler) at its loop: finalHandler := handler and
\* i := len(c.middlewares) - 1 (i is 1-based here).
ExecFrame(c, handler, s) ==
    [c |-> c, handler |-> handler, finalHandler |-> handler,
     i |-> s.len, pc |-> "loop"]
ExecTop == execStack[Len(execStack)]
\* The top frame of the running Exec call is at this point of its body.
ExecAt(pc) == execStack # << >> /\ ExecTop.pc = pc
\* An entry of execLog.
ExecEvent(op, depth, c, i, m, arg, out) ==
    [op |-> op, depth |-> depth, c |-> c, i |-> i, m |-> m, arg |-> arg, out |-> out]


\* Chains whose sequences are one shared variable: a read of any chain's
\* field meets the assignment of a Use, whatever chain it is called on.
SliceReadsShared(c) ==
    IF appending.pc = "store"
    THEN {[arr |-> a, len |-> n, cap |-> k] :
            a \in {appending.s.arr, appending.r.arr},
            n \in {appending.s.len, appending.r.len},
            k \in {appending.s.cap, appending.r.cap}}
    ELSE {chains[c].middlewares}
\* A race detector that does not tell the chains apart.
UseInProgressAnyChain(c) == appending.pc \in {"append", "store"}
\* A second thread is inside c.Use(m): between its read of c.middlewares and
\* its assignment to c.middlewares.
UseInProgress(c) == appending.pc \in {"append", "store"} /\ appending.c = c
\* What a read of the field c.middlewares can return. Exec takes no lock, so
\* a read that meets the assignment of a second thread's Use is a data race:
\* each of the three words of the slice (array, length, capacity) is the old
\* or the new one. Without a second thread there is the field's value only.
SliceReads(c) ==
    IF appending.pc = "store" /\ appending.c = c
    THEN {[arr |-> a, len |-> n, cap |-> k] :
            a \in {appending.s.arr, appending.r.arr},
            n \in {appending.s.len, appending.r.len},
            k \in {appending.s.cap, appending.r.cap}}
    ELSE {chains[c].middlewares}
\* What the read of element i of the slice s can return: the element of the
\* array; past the end of the array (a length that does not belong to the
\* array) it is whatever the memory holds; a nil array has nothing to read.
ElemReads(s, i) ==
    IF s.arr = 0 THEN {NilMiddleware}
    ELSE IF i <= Len(arrays[s.arr]) THEN {arrays[s.arr][i]}
    ELSE Pool \cup {NilMiddleware}
\* The log entry of a read of c.middlewares that races with a Use on c.
RaceEvents(depth, c, i, handler) ==
    IF UseInProgress(c)
    THEN <<ExecEvent("race", depth, c, i, NilMiddleware, handler, handler)>>
    ELSE << >>

\* A loop that passes the handler Exec was called with to every middleware.
ExecLoopArgHandler(f) == f.handler
\* The argument of c.middlewares[i].Exec(finalHandler)
ExecLoopArg(f) == f.finalHandler

\* The client calls c.Exec(HandlerFunc(t)).
ExecStart(c, t) ==
    \E s \in SliceReads(c) :
        /\ execStack' = <<ExecFrame(c, HandlerFunc(t), s)>>
        /\ execLog' = RaceEvents(1, c, 0, HandlerFunc(t)) \o
                <<ExecEvent("call", 1, c, 0, NilMiddleware, HandlerFunc(t), HandlerFunc(t))>>
ExecCall(c, t) ==
    /\ Idle
    /\ Room(1)
    /\ ExecStart(c, t)
    /\ UNCHANGED <<chainVars, handlers, stack, ret, call, requests, trace, appending>>

\* One turn of the loop: finalHandler = c.middlewares[i].Exec(finalHandler); i--
ExecLoopStep ==
    /\ ExecAt("loop")
    /\ ExecTop.i >= 1
    /\ LET f == ExecTop
           race == RaceEvents(Len(execStack), f.c, f.i, f.finalHandler)
       IN \E s \in SliceReads(f.c) : \E m \in ElemReads(s, f.i) :
            IF f.i <= s.len /\ m # NilMiddleware
            THEN LET out == MiddlewareExec(m, ExecLoopArg(f)) IN
                 /\ execStack' = [execStack EXCEPT ![Len(execStack)] =
                                    [f EXCEPT !.finalHandler = out, !.i = f.i - 1]]
                 /\ execLog' = execLog \o race \o
                        <<ExecEvent("exec", Len(execStack), f.c, f.i, m, ExecLoopArg(f), out)>>
            ELSE \* index out of range, or a call on a nil Middleware: panic
                 /\ execStack' = << >>
                 /\ execLog' = execLog \o race \o
                        <<ExecEvent("panic", Len(execStack), f.c, f.i, m,
                                    f.finalHandler, f.finalHandler)>>
    /\ UNCHANGED <<chainVars, handlers, stack, ret, call, requests, trace, appending>>

\* After the loop: if c.parent != nil, c.parent.Exec(finalHandler) is called.
ExecParentCall ==
    /\ ExecAt("loop")
    /\ ExecTop.i < 1
    /\ Parent(ExecTop.c) # 0
    /\ LET f == ExecTop IN
       \E s \in SliceReads(Parent(f.c)) :
        /\ execStack' = Append([execStack EXCEPT ![Len(execStack)].pc = "wait"],
                               ExecFrame(Parent(f.c), f.finalHandler, s))
        /\ execLog' = execLog \o
                RaceEvents(Len(execStack) + 1, Parent(f.c), 0, f.finalHandler) \o
                <<ExecEvent("call", Len(execStack) + 1, Parent(f.c), 0, NilMiddleware,
                          f.finalHandler, f.finalHandler)>>
    /\ UNCHANGED <<chainVars, handlers, stack, ret, call, requests, trace, appending>>

\* The frame on top has nothing left to do but return finalHandler.
ExecFinished ==
    \/ ExecAt("done")
    \/ ExecAt("loop") /\ ExecTop.i < 1 /\ Parent(ExecTop.c) = 0

\* The parent's Exec returns: finalHandler = c.parent.Exec(finalHandler)
ExecParentReturn ==
    /\ ExecFinished
    /\ Len(execStack) > 1
    /\ LET f == ExecTop
           d == Len(execStack) - 1
       IN /\ execStack' = [SubSeq(execStack, 1, d) EXCEPT ![d] =
                                [@ EXCEPT !.finalHandler = f.finalHandler, !.pc = "done"]]
          /\ execLog' = Append(execLog,
                ExecEvent("return", d + 1, f.c, 0, NilMiddleware, f.handler, f.finalHandler))
    /\ UNCHANGED <<chainVars, handlers, stack, ret, call, requests, trace, appending>>

\* return finalHandler, to the client, who keeps the handler.
ExecReturn ==
    /\ ExecFinished
    /\ Len(execStack) = 1
    /\ LET f == ExecTop IN
        /\ execStack' = << >>
        /\ execLog' = Append(execLog,
                ExecEvent("return", 1, f.c, 0, NilMiddleware, f.handler, f.finalHandler))
        /\ handlers' = Append(handlers,
                [h |-> f.finalHandler, chain |-> f.c, terminal |-> f.handler.fn,
                 seq |-> Flat(f.c)])
    /\ UNCHANGED <<chainVars, stack, ret, call, requests, trace, appending>>
-----------------------------------------------------------------------------
\* Running a composed handler: Handle.

\* EmptyRequest with a nil Body.
EmptyRequestNilBody ==
    [Method |-> "GET",
     URL |-> [nil |-> FALSE, Scheme |-> "", Host |-> "", Path |-> ""],
     Host |-> "",
     ProtoMajor |-> 1,
     ProtoMinor |-> 1,
     Proto |-> "HTTP/1.1",
     Header |-> [nil |-> FALSE, vals |-> << >>],
     Body |-> [nil |-> TRUE, data |-> << >>]]

\* EmptyRequest(): the http.Request it builds. URL, Header and Body are
\* references: nil or not, and what they point to (the fields of the URL, the
\* values set in the header in the order they were set, the bytes of the body).
EmptyRequest ==
    [Method |-> "GET",
     URL |-> [nil |-> FALSE, Scheme |-> "", Host |-> "", Path |-> ""],
     Host |-> "",
     ProtoMajor |-> 1,
     ProtoMinor |-> 1,
     Proto |-> "HTTP/1.1",
     Header |-> [nil |-> FALSE, vals |-> << >>],
     Body |-> [nil |-> FALSE, data |-> << >>]]

\* A function that sets a header where the request before it set one already.
ApplyRequestFuncFirstOnly(f, content) ==
    IF content.Header.vals = << >>
    THEN [content EXCEPT !.Header.vals = Append(@, <<"X", f>>)]
    ELSE content

\* What the functions the client registered do.
\* func(req) of a RequestProcessor: req.Header.Set("X", ...), one write to the
\* header of the request.
ApplyRequestFunc(f, content) == [content EXCEPT !.Header.vals = Append(@, <<"X", f>>)]
\* Contexts. A context is the sequence of the (key, value) pairs
\* context.WithValue put on context.Background(), innermost pair last. Keys
\* and values are interface values: a dynamic type and what it holds.
StringKey(k) == [type |-> "string", val |-> k]
\* var clientKey clientKeyType = "client"
clientKey == [type |-> "clientKeyType", val |-> "client"]
\* A *http.Client, a string, and the nil interface value.
Client(p) == [type |-> "*http.Client", ptr |-> p]
StringVal(v) == [type |-> "string", ptr |-> v]
NoValue == [type |-> "nil", ptr |-> Nil]

\* context.WithValue(ctx, key, val): a new context; ctx is not written to.
WithValue(ctx, key, val) == Append(ctx, [key |-> key, val |-> val])

\* A lookup that answers with the outermost pair of the key.
RECURSIVE ValueOutermost(_, _)
ValueOutermost(ctx, key) ==
    IF ctx = << >> THEN NoValue
    ELSE IF ctx[1].key = key THEN ctx[1].val
    ELSE ValueOutermost(SubSeq(ctx, 2, Len(ctx)), key)

\* ctx.Value(key): the value of the innermost pair with an equal key (equal
\* dynamic type and equal content), nil when there is none.
RECURSIVE Value(_, _)
Value(ctx, key) ==
    IF ctx = << >> THEN NoValue
    ELSE IF ctx[Len(ctx)].key = key THEN ctx[Len(ctx)].val
    ELSE Value(SubSeq(ctx, 1, Len(ctx) - 1), key)

\* SetClient(ctx, client)
SetClient(ctx, client) == WithValue(ctx, clientKey, Client(client))

\* GetClient(ctx)
GetClient(ctx) ==
    LET cl == Value(ctx, clientKey) IN
    IF cl = NoValue THEN Nil
    ELSE IF cl.type = "*http.Client" THEN cl.ptr
    ELSE Nil

\* Context functions that attach a client: func(ctx) { return SetClient(ctx, c) }.
ClientFuncs == {"useC1", "useC2"}
ClientOf(f) == IF f = "useC1" THEN "c1" ELSE "c2"

\* func(ctx) of a ContextProcessor: SetClient(ctx, c) for the functions that
\* attach a client, context.WithValue(ctx, "k", v) for the others.
ApplyContextFunc(f, ctx) ==
    IF f \in ClientFuncs THEN SetClient(ctx, ClientOf(f))
    ELSE WithValue(ctx, StringKey("k"), StringVal(f))

\* The contexts a client passes to Handle: context.Background(), one with a
\* client attached, one where another user of the context stored a value
\* under the string "client", and one with both.
Inbound ==
    {Background,
     SetClient(Background, "c0"),
     WithValue(Background, StringKey("client"), StringVal("other")),
     WithValue(SetClient(Background, "c0"), StringKey("client"), StringVal("other"))}

Top == stack[Len(stack)]
Frame(h, ctx, req) == [h |-> h, ctx |-> ctx, req |-> req, pc |-> "start"]
\* The top frame calls Handle on a handler: it waits, the callee runs.
Push(f) == Append([stack EXCEPT ![Len(stack)].pc = "wait"], f)
\* The top frame returns.
Pop == SubSeq(stack, 1, Len(stack) - 1)

\* The top frame runs a handler of this kind at this point of its body.
At(kind, pc) ==
    /\ call # NoCall
    /\ stack # << >>
    /\ Top.h.kind = kind
    /\ Top.pc = pc

\* An entry of the trace, made by the top frame.
Event(ev, resp, err, out) ==
    [ev |-> ev, depth |-> Len(stack), m |-> [kind |-> Top.h.kind, fn |-> Top.h.fn],
     ctx |-> Top.ctx, req |-> Top.req, resp |-> resp, err |-> err, out |-> out,
     seen |-> IF Top.req = 0 THEN << >> ELSE requests[Top.req]]
Enter == Event("enter", "none", "none", "none")
Leave(r) == Event("leave", r.resp, r.err, "none")

\* A handler that composes the chain only when it is called.
HandleCallComposes(hid, ctx, req) ==
    /\ Idle
    /\ call' = [hid |-> hid, ctx |-> ctx, req |-> req]
    /\ stack' = <<Frame(ChainExec(chains, arrays, handlers[hid].chain,
                                  HandlerFunc(handlers[hid].terminal)), ctx, req)>>
    /\ ret' = NoRet
    /\ trace' = << >>
    /\ requests' = [requests EXCEPT ![req] = EmptyRequest]
    /\ UNCHANGED <<chainVars, handlers, execVars>>

\* handler.Handle(ctx, EmptyRequest()) by the client: req is where the new
\* request is put.
HandleCall(hid, ctx, req) ==
    /\ Idle
    /\ call' = [hid |-> hid, ctx |-> ctx, req |-> req]
    /\ stack' = <<Frame(handlers[hid].h, ctx, req)>>
    /\ ret' = NoRet
    /\ trace' = << >>
    /\ requests' = [requests EXCEPT ![req] = EmptyRequest]
    /\ UNCHANGED <<chainVars, handlers, execVars>>

\* The client takes the result; the request of the call is dropped.
HandleReturn ==
    /\ call # NoCall
    /\ stack = << >>
    /\ ret # NoRet
    /\ call' = NoCall
    /\ ret' = NoRet
    /\ trace' = << >>
    /\ requests' = [r \in DOMAIN requests |-> << >>]
    /\ UNCHANGED <<chainVars, handlers, stack, execVars>>

\* A RequestProcessor handler that goes on after an error.
RequestProcessorNeverStops(e) == FALSE
\* RequestProcessor's handler: if err != nil
RequestProcessorStops(e) == e # Nil
\* A RequestProcessor handler that stops without an error.
RequestProcessorErrorNil(e) == [resp |-> Nil, err |-> Nil]
\* A RequestProcessor handler that stops with a response of its own.
RequestProcessorErrorWithResp(e) == [resp |-> "r1", err |-> e]
\* return nil, err
RequestProcessorError(e) == [resp |-> Nil, err |-> e]
\* A RequestProcessor handler that calls next with a new context.
RequestProcessorNextBackground(f) == Frame(f.h.next, Background, f.req)
\* handler.Handle(ctx, req)
RequestProcessorNext(f) == Frame(f.h.next, f.ctx, f.req)
\* A RequestProcessor handler that returns next's response without its error.
RequestProcessorResultNoErr(r) == [resp |-> r.resp, err |-> Nil]
\* return resp, err
RequestProcessorResult(r) == r

\* The handler of RequestProcessor.Exec up to its call of next: rp(req)
\* returns e.
RequestProcessorHandle(e) ==
    /\ At("RequestProcessor", "start")
    /\ requests' = [requests EXCEPT ![Top.req] = ApplyRequestFunc(Top.h.fn, @)]
    /\ IF RequestProcessorStops(e)
       THEN /\ stack' = Pop
            /\ ret' = RequestProcessorError(e)
            /\ trace' = trace \o <<Enter, Event("fn", "none", "none", e),
                                   Leave(RequestProcessorError(e))>>
       ELSE /\ stack' = Push(RequestProcessorNext(Top))
            /\ ret' = NoRet
            /\ trace' = trace \o <<Enter, Event("fn", "none", "none", e)>>
    /\ UNCHANGED <<chainVars, handlers, call, execVars>>

\* ... and after next returned.
RequestProcessorReturn ==
    /\ At("RequestProcessor", "wait")
    /\ stack' = Pop
    /\ ret' = RequestProcessorResult(ret)
    /\ trace' = Append(trace, Leave(RequestProcessorResult(ret)))
    /\ UNCHANGED <<chainVars, handlers, call, requests, execVars>>

\* A ResponseProcessor handler that calls next with a new context.
ResponseProcessorNextBackground(f) == Frame(f.h.next, Background, f.req)
\* ResponseProcessor's handler: handler.Handle(ctx, req)
ResponseProcessorNext(f) == Frame(f.h.next, f.ctx, f.req)
\* A ResponseProcessor handler that hides the error from the function.
ResponseProcessorArgsNoErr(r) == [resp |-> r.resp, err |-> Nil]
\* the arguments of rp(resp, err)
ResponseProcessorArgs(r) == r
\* A ResponseProcessor handler that returns the function's error as it is, nil too.
ResponseProcessorResultDropsErr(r, newErr) == [resp |-> r.resp, err |-> newErr]
\* A ResponseProcessor handler that replaces only a nil error.
ResponseProcessorResultKeepsErr(r, newErr) ==
    IF newErr # Nil /\ r.err = Nil THEN [resp |-> r.resp, err |-> newErr] ELSE r
\* A ResponseProcessor handler that replaces only a non-nil error.
ResponseProcessorResultOnlyErr(r, newErr) ==
    IF newErr # Nil /\ r.err # Nil THEN [resp |-> r.resp, err |-> newErr] ELSE r
\* if newErr != nil { return resp, newErr }; return resp, err
ResponseProcessorResult(r, newErr) ==
    IF newErr # Nil THEN [resp |-> r.resp, err |-> newErr] ELSE r

\* The handler of ResponseProcessor.Exec up to its call of next.
ResponseProcessorHandle ==
    /\ At("ResponseProcessor", "start")
    /\ stack' = Push(ResponseProcessorNext(Top))
    /\ ret' = NoRet
    /\ trace' = Append(trace, Enter)
    /\ UNCHANGED <<chainVars, handlers, call, requests, execVars>>

\* A ResponseProcessor handler that returns at once when next failed.
ResponseProcessorReturnSkips(newErr) ==
    /\ At("ResponseProcessor", "wait")
    /\ stack' = Pop
    /\ IF ret.err # Nil
       THEN /\ ret' = ret
            /\ trace' = Append(trace, Leave(ret))
       ELSE /\ ret' = [resp |-> ret.resp, err |-> newErr]
            /\ trace' = trace \o <<Event("fn", ret.resp, ret.err, newErr),
                                   Leave([resp |-> ret.resp, err |-> newErr])>>
    /\ UNCHANGED <<chainVars, handlers, call, requests, execVars>>

\* ... and after next returned: rp(resp, err) returns newErr.
ResponseProcessorReturn(newErr) ==
    /\ At("ResponseProcessor", "wait")
    /\ stack' = Pop
    /\ ret' = ResponseProcessorResult(ret, newErr)
    /\ LET a == ResponseProcessorArgs(ret) IN
        trace' = trace \o <<Event("fn", a.resp, a.err, newErr),
                            Leave(ResponseProcessorResult(ret, newErr))>>
    /\ UNCHANGED <<chainVars, handlers, call, requests, execVars>>

\* A ContextProcessor handler that calls next with the context it was given.
ContextProcessorNextSameCtx(f) == Frame(f.h.next, f.ctx, f.req)
\* A ContextProcessor handler that gives its function a new context.
ContextProcessorNextFromBackground(f) ==
    Frame(f.h.next, ApplyContextFunc(f.h.fn, Background), f.req)
\* ContextProcessor's handler: ctx = cp(ctx); handler.Handle(ctx, req)
ContextProcessorNext(f) == Frame(f.h.next, ApplyContextFunc(f.h.fn, f.ctx), f.req)
\* A ContextProcessor handler that returns next's response without its error.
ContextProcessorResultNoErr(r) == [resp |-> r.resp, err |-> Nil]
\* return handler.Handle(ctx, req)
ContextProcessorResult(r) == r

\* The handler of ContextProcessor.Exec up to its call of next.
ContextProcessorHandle ==
    /\ At("ContextProcessor", "start")
    /\ stack' = Push(ContextProcessorNext(Top))
    /\ ret' = NoRet
    /\ trace' = trace \o <<Enter, Event("fn", "none", "none", "none")>>
    /\ UNCHANGED <<chainVars, handlers, call, requests, execVars>>

\* ... and after next returned.
ContextProcessorReturn ==
    /\ At("ContextProcessor", "wait")
    /\ stack' = Pop
    /\ ret' = ContextProcessorResult(ret)
    /\ trace' = Append(trace, Leave(ContextProcessorResult(ret)))
    /\ UNCHANGED <<chainVars, handlers, call, requests, execVars>>

\* The handler a MiddlewareFunc of the pool builds: return next.Handle(ctx, req)
MiddlewareFuncHandle ==
    /\ At("MiddlewareFunc", "start")
    /\ stack' = Push(Frame(Top.h.next, Top.ctx, Top.req))
    /\ ret' = NoRet
    /\ trace' = Append(trace, Enter)
    /\ UNCHANGED <<chainVars, handlers, call, requests, execVars>>

MiddlewareFuncReturn ==
    /\ At("MiddlewareFunc", "wait")
    /\ stack' = Pop
    /\ ret' = ret
    /\ trace' = Append(trace, Leave(ret))
    /\ UNCHANGED <<chainVars, handlers, call, requests, execVars>>

\* The terminal handler: HandlerFunc.Handle calls the function, which sends
\* the request and returns (resp, err).
TerminalHandle(resp, err) ==
    /\ At("HandlerFunc", "start")
    /\ stack' = Pop
    /\ ret' = [resp |-> resp, err |-> err]
    /\ trace' = Append(trace, Event("term", resp, err, "none"))
    /\ UNCHANGED <<chainVars, handlers, call, requests, execVars>>

-----------------------------------------------------------------------------
\* Specifications.

Chains == 1..Len(chains)
\* Argument lists of a variadic call that creates k objects besides them.
Args(k) == SeqsUpTo(Pool, MaxObjects - Objects - k)

\* Building chains.
Build ==
    \/ \E ms \in Args(1) : NewChain(ms)
    \/ \E c \in Chains, ms \in Args(1) : ChildChain(c, ms)

\* The slices a caller makes: make([]Middleware, 0, 1) and, where there is
\* room, []Middleware{m}[:1:2]. Longer ones come from c.Middlewares().
Made == {<< >>} \cup (IF Room(2) THEN {<<m>> : m \in Pool} ELSE {})
\* The slices a caller holds and passes as s...: one it made, or the one
\* c.Middlewares() returned.
ArgSlices ==
    {Spread(arrays, ms, Len(ms) + 1) : ms \in Made}
    \cup {<<arrays, chains[d].middlewares>> : d \in Chains}

\* Building chains from slices.
Share ==
    \/ \E v \in ArgSlices : NewChainSlice(v)
    \/ \E c \in Chains, v \in ArgSlices : ChildChainSlice(c, v)

\* Composing handlers.
Compose == \E c \in Chains, t \in Terminals : Exec(c, t)

\* The client calls Handle.
Start == \E hid \in 1..Len(handlers) : HandleCall(hid, Background, 1)

\* The steps of a Handle call through adapters and the terminal handler.
AdapterSteps ==
    \/ \E e \in {Nil} \cup ProcErrors : RequestProcessorHandle(e)
    \/ RequestProcessorReturn
    \/ ResponseProcessorHandle
    \/ \E newErr \in {Nil} \cup ProcErrors : ResponseProcessorReturn(newErr)
    \/ ContextProcessorHandle
    \/ ContextProcessorReturn
    \/ \E resp \in {Nil} \cup Responses, err \in {Nil} \cup TermErrors :
            TerminalHandle(resp, err)
    \/ HandleReturn

\* The steps of a Handle call.
Steps ==
    \/ AdapterSteps
    \/ MiddlewareFuncHandle
    \/ MiddlewareFuncReturn

\* One Handle call, step by step.
Run == Start \/ Steps

\* Copying chains.
Duplicate == \E c \in Chains : Copy(c)

\* Appending to chains.
Register ==
    \/ \E c \in Chains, m \in Pool : Use(c, m)
    \/ \E c \in Chains, ms \in Args(0) : UseAll(c, ms)
    \/ \E c \in Chains, f \in MiddlewareFuncs : UseFunc(c, f)
    \/ \E c \in Chains, f \in RequestFuncs : UseRequest(c, f)
    \/ \E c \in Chains, f \in ResponseFuncs : UseResponse(c, f)

\* A client that builds chains, composes handlers and runs them.
Next == Build \/ Compose \/ Run
Spec == Init /\ [][Next]_vars

\* A client that builds chains and changes them.
Mutate == Duplicate \/ Register
NextChain == Build \/ Mutate
SpecChain == Init /\ [][NextChain]_vars


\* A client that builds chains from slices it holds and appends to them.
NextShare == Build \/ Share \/ Register
SpecShare == Init /\ [][NextShare]_vars

\* The middlewares of a client that works with contexts.
CtxPool ==
    {ContextProcessor(f) : f \in ClientFuncs}
    \cup {RequestProcessor(f) : f \in RequestFuncs}
    \cup {ResponseProcessor(f) : f \in ResponseFuncs}
ArgsOf(P, k) == SeqsUpTo(P, MaxObjects - Objects - k)

BuildCtx ==
    \/ \E ms \in ArgsOf(CtxPool, 1) : NewChain(ms)
    \/ \E c \in Chains, ms \in ArgsOf(CtxPool, 1) : ChildChain(c, ms)

StartCtx == \E hid \in 1..Len(handlers), ctx \in Inbound : HandleCall(hid, ctx, 1)

\* A client that passes contexts of its own to the handlers it runs.
NextCtx == BuildCtx \/ Compose \/ StartCtx \/ AdapterSteps
SpecCtx == Init /\ [][NextCtx]_vars

\* The middlewares of a client with two RequestProcessors that set the same
\* header field to different values.
SetFuncs == {"setX", "setX2"}
SetPool == Pool \cup {RequestProcessor(f) : f \in SetFuncs}

BuildSet ==
    \/ \E ms \in ArgsOf(SetPool, 1) : NewChain(ms)
    \/ \E c \in Chains, ms \in ArgsOf(SetPool, 1) : ChildChain(c, ms)

\* A client whose chains set a header field more than once.
NextSet == BuildSet \/ Compose \/ Run
SpecSet == Init /\ [][NextSet]_vars
\* Composing handlers, one statement of Exec at a time.
ComposeSteps ==
    \/ \E c \in Chains, t \in Terminals : ExecCall(c, t)
    \/ ExecLoopStep
    \/ ExecParentCall
    \/ ExecParentReturn
    \/ ExecReturn

\* A client that builds chains, composes handlers step by step and runs them.
NextExec == Build \/ ComposeSteps \/ Run
SpecExec == Init /\ [][NextExec]_vars
\* The heap <<arrays, chains>> after NewChain(ms...) (parent = 0) or after
\* ChildChain(ms...) on the chain parent.
WithChain(heap, ms, parent) ==
    LET v == Variadic(heap[1], ms)
    IN <<v[1], Append(heap[2], [middlewares |-> v[2], parent |-> parent])>>
\* The heap after c.Use(m), the append leaving the slice with capacity newcap.
WithUse(heap, c, m, newcap) ==
    LET a == AppendSlice(heap[1], heap[2][c].middlewares, <<m>>, newcap)
    IN <<a[1], [heap[2] EXCEPT ![c].middlewares = a[2]]>>

\* Middlewares a chain of a family is given.
MaxOwn == 1

\* A client that has built a family of chains three levels deep and composed
\* handlers: G := NewChain(g...); X := NewChain(xs...); P := G.ChildChain(p...),
\* with or without P.Use(X); C := P.ChildChain(c...); and for comparison the
\* parentless F := NewChain(...) of the same middlewares in one sequence. It
\* holds C.Exec(h1) and F.Exec(h1).
InitNest ==
    \E g, xs, p, c \in SeqsUpTo(Pool, MaxOwn), placed \in BOOLEAN :
        /\ placed \/ xs = << >>
        /\ LET G == WithChain(<< << >>, << >> >>, g, 0)
               X == WithChain(G, xs, 0)
               P == WithChain(X, p, 1)
           IN \E newcap \in (IF placed THEN AppendCaps(P[2][3].middlewares, 1) ELSE {0}) :
                LET U == IF placed THEN WithUse(P, 3, ChainRef(2), newcap) ELSE P
                    C == WithChain(U, c, 3)
                    F == WithChain(C, g \o p \o xs \o c, 0)
                IN /\ arrays = F[1]
                   /\ chains = F[2]
        /\ copyOf = [k \in 1..Len(chains) |-> 0]
        /\ handlers = [k \in 1..2 |->
                [h |-> ChainExec(chains, arrays, k + 3, HandlerFunc("h1")),
                 chain |-> k + 3, terminal |-> "h1", seq |-> Flat(k + 3)]]
        /\ stack = << >>
        /\ ret = NoRet
        /\ call = NoCall
        /\ requests = << << >> >>
        /\ trace = << >>
        /\ execStack = << >>
        /\ execLog = << >>
        /\ appending = NoUse

\* The client runs the handler of the family.
StartNest == HandleCall(1, Background, 1)
NextNest == StartNest \/ Steps
SpecNest == InitNest /\ [][NextNest]_vars
-----------------------------------------------------------------------------
\* Two threads: one composes and runs a handler, the other appends.

\* The heap <<arrays, chains>> after c.Copy().
WithCopy(heap, c) ==
    LET v == MakeCopy(heap[1], heap[2][c].middlewares)
    IN <<v[1], Append(heap[2], [middlewares |-> v[2], parent |-> 0])>>

\* A client that has built B := NewChain(bs...), C := B.ChildChain(cs...) and
\* K := C.Copy(), and now starts two threads.
InitThreads ==
    \E bs, cs \in SeqsUpTo(Pool, MaxOwn) :
        /\ LET B == WithChain(<< << >>, << >> >>, bs, 0)
               C == WithChain(B, cs, 1)
               K == WithCopy(C, 2)
           IN /\ arrays = K[1]
              /\ chains = K[2]
        /\ copyOf = <<0, 0, 2>>
        /\ handlers = << >>
        /\ stack = << >>
        /\ ret = NoRet
        /\ call = NoCall
        /\ requests = << << >> >>
        /\ trace = << >>
        /\ execStack = << >>
        /\ execLog = << >>
        /\ appending = NoUse

\* The first thread calls c.Exec(HandlerFunc("h1")), once.
ThreadExec(c) ==
    /\ Idle
    /\ execLog = << >>
    /\ ExecStart(c, "h1")
    /\ UNCHANGED <<chainVars, handlers, stack, ret, call, requests, trace, appending>>

\* and then runs the handler Exec returned.
ThreadHandle ==
    /\ handlers # << >>
    /\ HandleCall(1, Background, 1)

\* The second thread calls c.Use(m), once:
\* c.middlewares = append(c.middlewares, m). It reads the field,
UseBegin(c, m) ==
    /\ appending = NoUse
    /\ appending' = [pc |-> "append", c |-> c, m |-> m,
                     s |-> chains[c].middlewares, r |-> chains[c].middlewares]
    /\ UNCHANGED <<chainVars, handlers, stack, ret, call, requests, trace,
                   execStack, execLog>>
\* appends to the slice it read,
UseAppend ==
    /\ appending.pc = "append"
    /\ \E newcap \in AppendCaps(appending.s, 1) :
        LET a == AppendSlice(arrays, appending.s, <<appending.m>>, newcap)
        IN /\ arrays' = a[1]
           /\ appending' = [appending EXCEPT !.r = a[2], !.pc = "store"]
    /\ UNCHANGED <<chains, copyOf, handlers, stack, ret, call, requests, trace,
                   execStack, execLog>>
\* and assigns the result to the field.
UseStore ==
    /\ appending.pc = "store"
    /\ LET g == Collect(arrays, [chains EXCEPT ![appending.c].middlewares = appending.r])
       IN /\ arrays' = g[1]
          /\ chains' = g[2]
    /\ appending' = [pc |-> "done", c |-> appending.c, m |-> appending.m]
    /\ UNCHANGED <<copyOf, handlers, stack, ret, call, requests, trace,
                   execStack, execLog>>

NextThreads ==
    \/ \E c \in Chains : ThreadExec(c)
    \/ ExecLoopStep
    \/ ExecParentCall
    \/ ExecParentReturn
    \/ ExecReturn
    \/ ThreadHandle
    \/ Steps
    \/ \E c \in Chains, m \in Pool : UseBegin(c, m)
    \/ UseAppend
    \/ UseStore
SpecThreads == InitThreads /\ [][NextThreads]_vars
\* A client that copies chains, composes handlers and runs them.
NextCopy == Build \/ Duplicate \/ Compose \/ Run
SpecCopy == Init /\ [][NextCopy]_vars

\* A client that appends to chains between composing and running handlers.
NextUse == Build \/ Register \/ Compose \/ Run
SpecUse == Init /\ [][NextUse]_vars

-----------------------------------------------------------------------------
\* Reading the trace of a Handle call.

\* The call has returned to the client.
Done == call # NoCall /\ stack = << >> /\ ret # NoRet
\* The handler the client called, and the chain and terminal it was composed of.
Called == handlers[call.hid]

IsRP(e) == e.m.kind = "RequestProcessor"
IsResp(e) == e.m.kind = "ResponseProcessor"
IsCtx(e) == e.m.kind = "ContextProcessor"

\* Positions in the trace where Handle of the handler at depth d is invoked,
\* where it returns, and where the function of the adapter at depth d is called.
Invocations(d) == {i \in DOMAIN trace : trace[i].ev \in {"enter", "term"} /\ trace[i].depth = d}
Returns(d) == {i \in DOMAIN trace : trace[i].ev \in {"leave", "term"} /\ trace[i].depth = d}
FnCalls(d) == {i \in DOMAIN trace : trace[i].ev = "fn" /\ trace[i].depth = d}
\* What the function at depth d returned (its only call).
FnOut(d) == trace[CHOOSE i \in FnCalls(d) : TRUE].out
\* The (resp, err) pair at a position of the trace.
Pair(i) == <<trace[i].resp, trace[i].err>>
\* The RequestProcessor at depth d failed.
Failed(d) == \E i \in FnCalls(d) : IsRP(trace[i]) /\ trace[i].out # Nil
TerminalCalled == \E i \in DOMAIN trace : trace[i].ev = "term"

\* The trace without the calls of adapter functions: who was entered and left.
Skeleton == SelectSeq(trace, LAMBDA e : e.ev # "fn")
Shape == [i \in DOMAIN Skeleton |-> <<Skeleton[i].ev, Skeleton[i].depth, Skeleton[i].m>>]
\* Entering ms[1..k] in order, then the terminal handler t if reached, then
\* leaving ms[k..1].
Onion(ms, k, t, reached) ==
    [i \in 1..k |-> <<"enter", i, ms[i]>>]
    \o (IF reached THEN << <<"term", k + 1, HandlerFunc(t)>> >> ELSE << >>)
    \o [i \in 1..k |-> <<"leave", k + 1 - i, ms[k + 1 - i]>>]
Entered == Cardinality({i \in DOMAIN trace : trace[i].ev = "enter"})

-----------------------------------------------------------------------------
\* C1: a Handle call on the handler a parentless chain [m1..mn] composed
\* around h enters m1, m2, ... in registration order, each one level deeper,
\* then invokes h, then leaves the entered middlewares in reverse order, m1
\* last. When no RequestProcessor fails the whole sequence m1..mn, h, mn..m1
\* is run; a failing RequestProcessor mk is the last one entered and h is not
\* invoked.
C1_OnionOrder ==
    (Done /\ Parent(Called.chain) = 0) =>
        LET ms == Middlewares(Called.chain)
            stopped == \E d \in 1..Len(ms) : Failed(d)
        IN /\ Entered <= Len(ms)
           /\ Shape = Onion(ms, Entered, Called.terminal, ~stopped)
           /\ ~stopped => Entered = Len(ms)
           /\ stopped => Failed(Entered)

C1_Witness ==
    /\ Done
    /\ Parent(Called.chain) = 0
    /\ Len(Middlewares(Called.chain)) = 3
    /\ Middlewares(Called.chain)[1] # Middlewares(Called.chain)[2]
    /\ Middlewares(Called.chain)[2] # Middlewares(Called.chain)[3]
    /\ TerminalCalled

\* C2: with a parent P, every middleware of P (and of P's ancestors) is
\* entered before anything the child composed (its own c1..cm and the
\* terminal handler) runs and is left only after all of it has returned; the
\* levels below P's are the child's own middlewares in order, then the
\* terminal handler.
C2_ParentWraps ==
    (Done /\ Parent(Called.chain) # 0) =>
        LET P == Flat(Parent(Called.chain))
            own == Middlewares(Called.chain)
        IN \A i \in DOMAIN trace : trace[i].depth > Len(P) =>
            /\ \A j \in 1..Len(P) :
                /\ \E a \in 1..(i - 1) :
                    /\ trace[a].ev = "enter"
                    /\ trace[a].depth = j
                    /\ trace[a].m = P[j]
                /\ \E b \in (i + 1)..Len(trace) :
                    /\ trace[b].ev = "leave"
                    /\ trace[b].depth = j
                    /\ trace[b].m = P[j]
                /\ ~ \E b \in 1..i : trace[b].ev = "leave" /\ trace[b].depth = j
            /\ trace[i].m = IF trace[i].depth - Len(P) <= Len(own)
                            THEN own[trace[i].depth - Len(P)]
                            ELSE HandlerFunc(Called.terminal)

C2_Witness ==
    /\ Done
    /\ Parent(Called.chain) # 0
    /\ Len(Flat(Parent(Called.chain))) >= 1
    /\ Len(Middlewares(Called.chain)) >= 1
    /\ Flat(Parent(Called.chain))[1] # Middlewares(Called.chain)[1]
    /\ \E i \in DOMAIN trace :
        /\ trace[i].ev = "leave"
        /\ trace[i].depth = Len(Flat(Parent(Called.chain))) + 1
    /\ TerminalCalled

\* C3: when the function of a RequestProcessor returns a non-nil error e, its
\* handler returns (nil, e) at once: next.Handle is not called (nothing runs
\* below it, the terminal handler is never invoked) and the error returned is e
\* itself.
C3_RequestErrorStops ==
    \A i \in DOMAIN trace :
        (trace[i].ev = "fn" /\ IsRP(trace[i]) /\ trace[i].out # Nil) =>
            /\ i < Len(trace)
            /\ trace[i + 1].ev = "leave"
            /\ trace[i + 1].depth = trace[i].depth
            /\ trace[i + 1].resp = Nil
            /\ trace[i + 1].err = trace[i].out
            /\ \A j \in DOMAIN trace : trace[j].depth <= trace[i].depth
            /\ ~TerminalCalled

C3_Witness ==
    /\ Done
    /\ Failed(1)
    /\ ret = [resp |-> Nil, err |-> FnOut(1)]
    /\ ~TerminalCalled

\* Where the handler at depth d was entered.
EnterAt(d) == CHOOSE i \in DOMAIN trace : trace[i].ev = "enter" /\ trace[i].depth = d

\* C4: when the function of a RequestProcessor returns nil, its handler calls
\* next.Handle exactly once, after the function, with the context and the request
\* it was called with, and returns the pair next returned.
C4_RequestNilContinues ==
    \A j \in DOMAIN trace :
        (trace[j].ev = "leave" /\ IsRP(trace[j]) /\ FnOut(trace[j].depth) = Nil) =>
            LET d == trace[j].depth IN
            /\ Cardinality(Invocations(d + 1)) = 1
            /\ \A i \in Invocations(d + 1) :
                /\ \A f \in FnCalls(d) : f < i
                /\ i < j
                /\ trace[i].ctx = trace[EnterAt(d)].ctx
                /\ trace[i].req = trace[EnterAt(d)].req
                /\ trace[i].req = call.req
            /\ Cardinality(Returns(d + 1)) = 1
            /\ \A r \in Returns(d + 1) : Pair(j) = Pair(r)

C4_Witness ==
    /\ Done
    /\ \E j \in DOMAIN trace :
        /\ trace[j].ev = "leave"
        /\ IsRP(trace[j])
        /\ FnOut(trace[j].depth) = Nil
        /\ trace[j].ctx # Background
        /\ trace[j].resp # Nil
        /\ trace[j].err # Nil

\* C5: the handler of a ResponseProcessor calls next.Handle exactly once and
\* only then its function, exactly once, whatever next returned, and the
\* function receives the (resp, err) pair next returned.
C5_ResponseObservesNext ==
    /\ \A i \in DOMAIN trace :
        (trace[i].ev = "fn" /\ IsResp(trace[i])) =>
            LET d == trace[i].depth IN
            /\ Cardinality(Invocations(d + 1)) = 1
            /\ Cardinality(Returns(d + 1)) = 1
            /\ \A k \in Invocations(d + 1) \cup Returns(d + 1) : k < i
            /\ \A r \in Returns(d + 1) : Pair(i) = Pair(r)
    /\ \A j \in DOMAIN trace :
        (trace[j].ev = "leave" /\ IsResp(trace[j])) =>
            /\ Cardinality(FnCalls(trace[j].depth)) = 1
            /\ \A i \in FnCalls(trace[j].depth) : i < j

C5_Witness ==
    \E i \in DOMAIN trace :
        /\ trace[i].ev = "fn"
        /\ IsResp(trace[i])
        /\ trace[i].resp = Nil
        /\ trace[i].err # Nil

\* C6: when the function of a ResponseProcessor returns nil, its handler
\* returns the (resp, err) pair next returned, a non-nil error included.
C6_ResponseNilKeeps ==
    \A j \in DOMAIN trace :
        (trace[j].ev = "leave" /\ IsResp(trace[j]) /\ FnOut(trace[j].depth) = Nil) =>
            /\ Returns(trace[j].depth + 1) # {}
            /\ \A r \in Returns(trace[j].depth + 1) : Pair(j) = Pair(r)

C6_Witness ==
    /\ Done
    /\ \E j \in DOMAIN trace :
        /\ trace[j].ev = "leave"
        /\ IsResp(trace[j])
        /\ trace[j].depth = 1
        /\ FnOut(1) = Nil
        /\ \E r \in Returns(2) : trace[r].ev = "term" /\ trace[r].err # Nil
        /\ ret.err # Nil

\* C7: when the function of a ResponseProcessor returns a non-nil error e2, its
\* handler returns e2 as the error, whatever error next returned, together
\* with the response next returned.
C7_ResponseErrorReplaces ==
    \A j \in DOMAIN trace :
        (trace[j].ev = "leave" /\ IsResp(trace[j]) /\ FnOut(trace[j].depth) # Nil) =>
            /\ trace[j].err = FnOut(trace[j].depth)
            /\ Returns(trace[j].depth + 1) # {}
            /\ \A r \in Returns(trace[j].depth + 1) : trace[j].resp = trace[r].resp

C7_Witness ==
    /\ Done
    /\ \E j \in DOMAIN trace :
        /\ trace[j].ev = "leave"
        /\ IsResp(trace[j])
        /\ FnOut(trace[j].depth) # Nil
        /\ trace[j].resp # Nil
        /\ \E r \in Returns(trace[j].depth + 1) :
            trace[r].err # Nil /\ trace[r].err # FnOut(trace[j].depth)

\* C8 as stated: on every Handle call the function of each ResponseProcessor
\* of the chain is invoked, wherever in the pipeline a failure occurred.
C8_EveryResponseProcessorRuns ==
    Done =>
        \A p \in 1..Len(Flat(Called.chain)) :
            Flat(Called.chain)[p].kind = "ResponseProcessor" => FnCalls(p) # {}

\* C8, amended: the function of a ResponseProcessor is invoked exactly once,
\* with the outcome of everything registered after it (a failure of the
\* terminal handler or of a later RequestProcessor included), unless a
\* RequestProcessor registered before it (in the chain or an ancestor) failed;
\* then it is not invoked at all.
C8_ResponseProcessorRunsUnlessCutOff ==
    Done =>
        \A p \in 1..Len(Flat(Called.chain)) :
            Flat(Called.chain)[p].kind = "ResponseProcessor" =>
                IF \E q \in 1..(p - 1) : Failed(q)
                THEN FnCalls(p) = {}
                ELSE /\ Cardinality(FnCalls(p)) = 1
                     /\ Returns(p + 1) # {}
                     /\ \A i \in FnCalls(p) : \A r \in Returns(p + 1) : Pair(i) = Pair(r)

C8_Witness ==
    /\ Done
    /\ \E p \in 1..Len(Flat(Called.chain)) :
        /\ Flat(Called.chain)[p].kind = "ResponseProcessor"
        /\ \E i \in FnCalls(p) : trace[i].err # Nil
        /\ \E q \in (p + 1)..Len(Flat(Called.chain)) : Failed(q)

\* C9: the handler of a ContextProcessor always calls next.Handle, exactly
\* once, with the context its function returned for the context it was called
\* with and with the same request, and returns the pair next returned.
C9_ContextReplaced ==
    /\ \A j \in DOMAIN trace :
        (trace[j].ev = "leave" /\ IsCtx(trace[j])) =>
            LET d == trace[j].depth IN
            /\ Cardinality(Invocations(d + 1)) = 1
            /\ \A i \in Invocations(d + 1) :
                /\ i < j
                /\ trace[i].ctx = ApplyContextFunc(trace[j].m.fn, trace[EnterAt(d)].ctx)
                /\ trace[i].req = trace[EnterAt(d)].req
            /\ Cardinality(Returns(d + 1)) = 1
            /\ \A r \in Returns(d + 1) : Pair(j) = Pair(r)
    /\ Done => \A i \in DOMAIN trace :
        (trace[i].ev = "enter" /\ IsCtx(trace[i])) => Invocations(trace[i].depth + 1) # {}

C9_Witness ==
    /\ Done
    /\ \E j \in DOMAIN trace :
        /\ trace[j].ev = "leave"
        /\ IsCtx(trace[j])
        /\ trace[j].depth = 2
        /\ trace[j].ctx # Background
        /\ trace[j].err # Nil

-----------------------------------------------------------------------------
\* The call ended at a failing RequestProcessor.
Stopped == \E i \in DOMAIN trace : trace[i].ev = "fn" /\ IsRP(trace[i]) /\ trace[i].out # Nil

\* C11: the copy of a chain has no parent, also when the receiver has one, and
\* a Handle call on the handler the copy composed around h runs the receiver's
\* own middlewares and h only: nothing of the receiver's parent is entered.
C11_CopyParentless ==
    /\ \A d \in Chains : copyOf[d] # 0 => Parent(d) = 0
    /\ (Done /\ copyOf[Called.chain] # 0) =>
        LET own == Middlewares(copyOf[Called.chain]) IN
        /\ Entered <= Len(own)
        /\ Shape = Onion(own, Entered, Called.terminal, ~Stopped)
        /\ ~Stopped => Entered = Len(own)

\* The handler of a copy has run; the receiver has a parent that holds a
\* middleware.
C11_Witness ==
    /\ Done
    /\ copyOf[Called.chain] # 0
    /\ Parent(copyOf[Called.chain]) # 0
    /\ Len(Flat(Parent(copyOf[Called.chain]))) >= 1
    /\ TerminalCalled

-----------------------------------------------------------------------------
\* c.Middlewares() after the step.
MiddlewaresAfter(c) == Elems(arrays', chains'[c].middlewares)

\* C10: Copy returns a new chain whose sequence has the length and, position by
\* position, the middleware values of the receiver's, and leaves the receiver's
\* sequence as it was; from then on a step that changes the sequence of the
\* copy (a Use, UseAll, UseFunc, UseRequest or UseResponse on it) leaves the
\* sequence of the original unchanged, and a step that changes the original's
\* leaves the copy's unchanged.
C10_CopyIndependent ==
    [][/\ (Len(chains') = Len(chains) + 1 /\ copyOf'[Len(chains')] # 0) =>
            LET d == Len(chains')
                c == copyOf'[d]
            IN /\ Len(MiddlewaresAfter(d)) = Len(Middlewares(c))
               /\ \A i \in 1..Len(Middlewares(c)) :
                    MiddlewaresAfter(d)[i] = Middlewares(c)[i]
               /\ MiddlewaresAfter(c) = Middlewares(c)
               /\ d # c
       /\ \A d \in Chains : copyOf[d] # 0 =>
            /\ MiddlewaresAfter(d) # Middlewares(d) =>
                    MiddlewaresAfter(copyOf[d]) = Middlewares(copyOf[d])
            /\ MiddlewaresAfter(copyOf[d]) # Middlewares(copyOf[d]) =>
                    MiddlewaresAfter(d) = Middlewares(d)
      ]_vars

\* A copy of a chain that held middlewares has been appended to since.
C10_Witness ==
    \E d \in Chains :
        /\ copyOf[d] # 0
        /\ Len(Middlewares(copyOf[d])) >= 1
        /\ Len(Middlewares(d)) > Len(Middlewares(copyOf[d]))
        /\ Middlewares(d)[1] = Middlewares(copyOf[d])[1]

-----------------------------------------------------------------------------
\* The step is an append to chain c: its slice has grown.
Appended(c) == chains'[c].middlewares.len > chains[c].middlewares.len
\* The step made a new chain.
ChainMade == Len(chains') = Len(chains) + 1
\* The slices of chains a and b point into the same backing array.
SharesArray(a, b) ==
    /\ chains[a].middlewares.arr # 0
    /\ chains[a].middlewares.arr = chains[b].middlewares.arr

\* What ChildChain itself does: the new chain has the receiver as parent and
\* the arguments as its sequence, and every chain that existed, the receiver
\* included, keeps its sequence and its parent.
ChildChainReturns ==
    ChainMade =>
        LET d == Len(chains') IN
        /\ \A c \in Chains, ms \in Args(1) : ChildChain(c, ms) =>
                /\ chains'[d].parent = c
                /\ MiddlewaresAfter(d) = ms
        /\ \A c \in Chains, v \in ArgSlices : ChildChainSlice(c, v) =>
                /\ chains'[d].parent = c
                /\ MiddlewaresAfter(d) = Elems(v[1], v[2])
        /\ \A c \in Chains :
                /\ MiddlewaresAfter(c) = Middlewares(c)
                /\ chains'[c].parent = chains[c].parent

\* C12 as stated: ChildChain returns a chain with the receiver as parent and
\* exactly ms as sequence and leaves the receiver as it was, and every later
\* append to the child leaves the sequence of the receiver unchanged.
C12_ChildNeverChangesReceiver ==
    [][/\ ChildChainReturns
       /\ \A d \in Chains : (Parent(d) # 0 /\ Appended(d)) =>
                MiddlewaresAfter(Parent(d)) = Middlewares(Parent(d))
      ]_vars

\* C12, amended: ChildChain returns a chain with the receiver as parent and
\* exactly ms as sequence and leaves the receiver as it was; a later append to
\* the child leaves the sequence of the receiver unchanged when the slice of
\* the child does not share its backing array with the slice of the receiver.
C12_ChildChangesReceiverOnlyIfShared ==
    [][/\ ChildChainReturns
       /\ \A d \in Chains : (Parent(d) # 0 /\ Appended(d) /\ ~SharesArray(d, Parent(d))) =>
                MiddlewaresAfter(Parent(d)) = Middlewares(Parent(d))
      ]_vars

\* A child with an array of its own has been appended to (the array has
\* grown beyond what a call can pass), and its parent holds a middleware.
C12_Witness ==
    \E d \in Chains :
        /\ Parent(d) # 0
        /\ ~SharesArray(d, Parent(d))
        /\ chains[d].middlewares.len >= 2
        /\ chains[d].middlewares.cap > chains[d].middlewares.len
        /\ Len(Middlewares(Parent(d))) >= 1

-----------------------------------------------------------------------------
IsPrefix(a, b) == Len(a) <= Len(b) /\ \A i \in 1..Len(a) : a[i] = b[i]

\* What the operations do to the sequence of their own chain: Use and UseAll
\* put their arguments, in argument order, behind what the chain held, and
\* NewChain starts a parentless chain with exactly its arguments.
OwnSequenceAppended ==
    /\ \A c \in Chains : chains'[c] # chains[c] =>
        /\ \A m \in Pool : Use(c, m) =>
                MiddlewaresAfter(c) = Append(Middlewares(c), m)
        /\ \A ms \in Args(0) : UseAll(c, ms) =>
                MiddlewaresAfter(c) = Middlewares(c) \o ms
    /\ ChainMade =>
        \A ms \in Args(1) : NewChain(ms) =>
            /\ MiddlewaresAfter(Len(chains')) = ms
            /\ chains'[Len(chains')].parent = 0

\* C13 as stated: Use and UseAll append in argument order, NewChain starts
\* with its arguments and no parent, and no operation whatever takes an
\* element out of the sequence of a chain or changes its place: the sequence
\* before a step is a prefix of the sequence after it.
C13_AppendOnly ==
    [][/\ OwnSequenceAppended
       /\ \A c \in Chains : IsPrefix(Middlewares(c), MiddlewaresAfter(c))
      ]_vars

\* C13, amended: Use and UseAll append in argument order, NewChain starts
\* with its arguments and no parent, and the sequence of a chain before a step
\* is a prefix of the sequence after it unless the step is an append to
\* another chain whose slice shares the backing array.
C13_AppendOnlyUnlessShared ==
    [][/\ OwnSequenceAppended
       /\ \A c \in Chains :
            (\A d \in Chains : (d # c /\ Appended(d)) => ~SharesArray(c, d)) =>
                IsPrefix(Middlewares(c), MiddlewaresAfter(c))
      ]_vars

\* A chain has grown by appends (its array is larger than a call passes) and
\* holds different middlewares.
C13_Witness ==
    \E c \in Chains :
        /\ chains[c].middlewares.len >= 3
        /\ chains[c].middlewares.cap > chains[c].middlewares.len
        /\ Middlewares(c)[1] # Middlewares(c)[2]
        /\ Middlewares(c)[2] # Middlewares(c)[3]

-----------------------------------------------------------------------------
\* C14: UseFunc(f), UseRequest(f) and UseResponse(f) each append exactly one
\* middleware, MiddlewareFunc(f), RequestProcessor(f) and ResponseProcessor(f),
\* and lead to exactly the states Use of that middleware leads to: a step is
\* one of them if and only if it is that Use.
C14_UseShortcuts ==
    [][\A c \in Chains : chains'[c] # chains[c] =>
        /\ \A f \in MiddlewareFuncs :
            /\ UseFunc(c, f) <=> Use(c, MiddlewareFunc(f))
            /\ UseFunc(c, f) => MiddlewaresAfter(c) = Append(Middlewares(c), MiddlewareFunc(f))
        /\ \A f \in RequestFuncs :
            /\ UseRequest(c, f) <=> Use(c, RequestProcessor(f))
            /\ UseRequest(c, f) => MiddlewaresAfter(c) = Append(Middlewares(c), RequestProcessor(f))
        /\ \A f \in ResponseFuncs :
            /\ UseResponse(c, f) <=> Use(c, ResponseProcessor(f))
            /\ UseResponse(c, f) => MiddlewaresAfter(c) = Append(Middlewares(c), ResponseProcessor(f))
      ]_vars

\* A chain has grown to hold a function of each of the three kinds.
C14_Witness ==
    \E c \in Chains :
        /\ chains[c].middlewares.cap > chains[c].middlewares.len
        /\ \A k \in {"MiddlewareFunc", "RequestProcessor", "ResponseProcessor"} :
            \E i \in 1..Len(Middlewares(c)) : Middlewares(c)[i].kind = k

-----------------------------------------------------------------------------
\* C15: a handler Exec returned runs the middlewares the chain and its
\* ancestors held when Exec was called, in that order, whatever has been
\* appended to the chain or to its parent since.
C15_HandlerFixed ==
    Done =>
        /\ Entered <= Len(Called.seq)
        /\ Shape = Onion(Called.seq, Entered, Called.terminal, ~Stopped)
        /\ ~Stopped => Entered = Len(Called.seq)

\* A handler has run after its chain (or an ancestor) was appended to.
C15_Witness ==
    /\ Done
    /\ Flat(Called.chain) # Called.seq
    /\ Len(Called.seq) >= 1
    /\ TerminalCalled

-----------------------------------------------------------------------------
\* The middlewares a composed handler goes through, outermost first, and the
\* handler at its end.
RECURSIVE Unwrap(_)
Unwrap(h) ==
    IF h.kind = "HandlerFunc" THEN << >>
    ELSE <<[kind |-> h.kind, fn |-> h.fn]>> \o Unwrap(h.next)
RECURSIVE Innermost(_)
Innermost(h) == IF h.kind = "HandlerFunc" THEN h ELSE Innermost(h.next)

\* C16: the handlers Exec composes from one chain around different terminal
\* handlers are independent: each goes through the middlewares of the chain
\* and ends in its own terminal handler, a Handle call on it invokes that
\* terminal handler and no other, and Exec changes nothing of the chain.
C16_ExecIndependent ==
    /\ [](/\ \A a \in 1..Len(handlers) :
                /\ Unwrap(handlers[a].h) = Flat(handlers[a].chain)
                /\ Innermost(handlers[a].h) = HandlerFunc(handlers[a].terminal)
           /\ \A i \in DOMAIN trace :
                trace[i].ev = "term" => trace[i].m = HandlerFunc(Called.terminal))
    /\ [][Len(handlers') > Len(handlers) => UNCHANGED chainVars]_vars

\* A handler has run while the client holds another one, composed of the
\* same chain around the other terminal handler.
C16_Witness ==
    /\ Done
    /\ TerminalCalled
    /\ Len(Called.seq) >= 1
    /\ \E b \in 1..Len(handlers) :
        /\ handlers[b].chain = Called.chain
        /\ handlers[b].terminal # Called.terminal

-----------------------------------------------------------------------------
\* C17: Exec only composes. The step that returns a handler leaves the record
\* of what ran empty and touches no request, and whatever runs (a terminal
\* handler, the function of an adapter) runs inside a Handle call the client
\* made on a handler Exec had returned before.
C17_ExecOnlyComposes ==
    /\ [](trace # << >> => (call # NoCall /\ call.hid \in 1..Len(handlers)))
    /\ [][Len(handlers') > Len(handlers) =>
            (trace = << >> /\ trace' = << >> /\ UNCHANGED runVars)]_vars

\* A handler composed of a chain with an adapter of each kind is held and
\* not running.
C17_Witness ==
    /\ Idle
    /\ Len(handlers) >= 1
    /\ \A k \in {"RequestProcessor", "ResponseProcessor", "ContextProcessor"} :
        \E i \in 1..Len(handlers[Len(handlers)].seq) : handlers[Len(handlers)].seq[i].kind = k

-----------------------------------------------------------------------------
Adapters == {"RequestProcessor", "ResponseProcessor", "ContextProcessor"}
\* The handler called was composed of adapters of these kinds only.
OnlyOf(kinds) == \A i \in 1..Len(Called.seq) : Called.seq[i].kind \in kinds

\* C18: when the handler of a chain (ancestors included) built of
\* RequestProcessor, ResponseProcessor and ContextProcessor adapters only
\* returns without the terminal handler having been invoked, the error it
\* returns is not nil.
C18_StopIsAnError ==
    (Done /\ OnlyOf(Adapters) /\ ~TerminalCalled) => ret.err # Nil

\* A call stopped in the child of a chain whose ResponseProcessor saw the
\* error and returned nil.
C18_Witness ==
    /\ Done
    /\ OnlyOf(Adapters)
    /\ ~TerminalCalled
    /\ Parent(Called.chain) # 0
    /\ \E i \in DOMAIN trace :
        /\ trace[i].ev = "fn"
        /\ IsResp(trace[i])
        /\ trace[i].err # Nil
        /\ trace[i].out = Nil

\* The header values n functions of RequestProcessors seq[1..n] leave.
Written(seq, n) == [i \in 1..n |-> <<"X", seq[i].fn>>]

C20_EmptyRequest ==
    (call # NoCall /\ trace # << >>) =>
        LET req == trace[1].seen IN
        /\ req.Method = "GET"
        /\ ~req.URL.nil
        /\ req.URL.Scheme = "" /\ req.URL.Host = "" /\ req.URL.Path = ""
        /\ req.Host = ""
        /\ req.ProtoMajor = 1 /\ req.ProtoMinor = 1
        /\ req.Proto = "HTTP/1.1"
        /\ ~req.Header.nil /\ req.Header.vals = << >>
        /\ ~req.Body.nil /\ Len(req.Body.data) = 0

\* A RequestProcessor has set a header of the request the call started with.
C20_Witness ==
    /\ call # NoCall
    /\ trace # << >>
    /\ IsRP(trace[1])
    /\ requests[call.req].Header.vals # << >>

-----------------------------------------------------------------------------
\* The client attached to the context the call was made with.
InboundClient ==
    IF call.ctx \in {SetClient(Background, "c0"),
                     WithValue(SetClient(Background, "c0"), StringKey("client"), StringVal("other"))}
    THEN "c0" ELSE Nil
\* The ContextProcessors above depth d of the handler called.
ContextProcessorsAbove(d) == {k \in 1..(d - 1) : Called.seq[k].kind = "ContextProcessor"}
Last(S) == CHOOSE k \in S : \A j \in S : j <= k

\* C21: GetClient of a context returns the client of the innermost SetClient
\* it was derived through (the last ContextProcessor above, else the one of
\* the context the client passed) and nil when there is none; the context a
\* SetClient was applied to still gives what it gave before; a value another
\* user stored under the string "client" is never returned by GetClient and
\* is still found under that string after every SetClient.
C21_ClientInContext ==
    call # NoCall =>
        /\ GetClient(call.ctx) = InboundClient
        /\ \A i \in DOMAIN trace : trace[i].ev \in {"enter", "term"} =>
            LET cps == ContextProcessorsAbove(trace[i].depth) IN
            /\ GetClient(trace[i].ctx) =
                    IF cps = {} THEN InboundClient ELSE ClientOf(Called.seq[Last(cps)].fn)
            /\ GetClient(trace[i].ctx) # "other"
            /\ Value(trace[i].ctx, StringKey("client")) = Value(call.ctx, StringKey("client"))

\* The terminal handler got a context with two clients attached over the one
\* the call came with, which also holds a value under the string "client".
C21_Witness ==
    /\ Done
    /\ TerminalCalled
    /\ GetClient(call.ctx) = "c0"
    /\ Value(call.ctx, StringKey("client")) = StringVal("other")
    /\ \E i \in DOMAIN trace :
        /\ trace[i].ev = "term"
        /\ GetClient(trace[i].ctx) = "c2"
        /\ \E k \in ContextProcessorsAbove(trace[i].depth) : Called.seq[k].fn = "useC1"

-----------------------------------------------------------------------------
\* C28: in the handler of a chain of RequestProcessors and ResponseProcessors
\* only, every handler down to the terminal one is called with exactly the
\* context the client passed to the outermost Handle.
C28_ContextThreaded ==
    (call # NoCall /\ OnlyOf({"RequestProcessor", "ResponseProcessor"})) =>
        \A i \in DOMAIN trace : trace[i].ctx = call.ctx

\* The terminal handler got the context of the client, not the background
\* one, through a RequestProcessor and a ResponseProcessor.
C28_Witness ==
    /\ Done
    /\ TerminalCalled
    /\ call.ctx # Background
    /\ OnlyOf({"RequestProcessor", "ResponseProcessor"})
    /\ \E i, j \in 1..Len(Called.seq) :
        Called.seq[i].kind = "RequestProcessor" /\ Called.seq[j].kind = "ResponseProcessor"

\* The context the handler at depth d is expected to be called with: the
\* functions of the ContextProcessors seq[1..d-1], applied in that order to ctx.
RECURSIVE Substituted(_, _, _)
Substituted(seq, d, ctx) ==
    IF d <= 1 THEN ctx
    ELSE LET before == Substituted(seq, d - 1, ctx) IN
         IF seq[d - 1].kind = "ContextProcessor"
         THEN ApplyContextFunc(seq[d - 1].fn, before)
         ELSE before

\* C29: the context a ContextProcessor puts in place is what the middlewares
\* registered after it and the terminal handler are called with, while the
\* ones registered before it keep (also when they return) the context they
\* were called with: the handler at depth d gets cp(d-1)(...cp1(ctx)...) of
\* the ContextProcessors before it, and so does the terminal handler for all
\* of them.
C29_ContextScoped ==
    call # NoCall =>
        \A i \in DOMAIN trace :
            trace[i].ctx = Substituted(Called.seq, trace[i].depth, call.ctx)

\* A call came with a context of the client and went through two different
\* ContextProcessors with a middleware before, between or after them.
C29_Witness ==
    /\ Done
    /\ TerminalCalled
    /\ call.ctx # Background
    /\ Len(Called.seq) = 3
    /\ \E i, j \in 1..3 :
        /\ i < j
        /\ Called.seq[i].kind = "ContextProcessor"
        /\ Called.seq[j].kind = "ContextProcessor"
        /\ Called.seq[i].fn # Called.seq[j].fn
    /\ \E k \in 1..3 : Called.seq[k].kind # "ContextProcessor"

-----------------------------------------------------------------------------
\* C22: a child chain asks its parent when Exec is called. The handler a step
\* of child.Exec(h) returns goes through what the parent (and its ancestors)
\* hold at that moment, middlewares appended to the parent since the child
\* was created included, and then through the child's own middlewares, and
\* it ends in h.
C22_ParentAtExecTime ==
    [][Len(handlers') > Len(handlers) =>
        LET n == handlers'[Len(handlers')]
            c == n.chain
        IN Parent(c) # 0 =>
            /\ Unwrap(n.h) = Flat(Parent(c)) \o Middlewares(c)
            /\ Innermost(n.h) = HandlerFunc(n.terminal)]_vars

\* The client composed two handlers from one child chain, the parent was
\* appended to in between, and the later handler has run through the
\* middleware the parent got and through the child's own ones inside it.
C22_Witness ==
    /\ Done
    /\ TerminalCalled
    /\ Parent(Called.chain) # 0
    /\ Called.seq = Flat(Parent(Called.chain)) \o Middlewares(Called.chain)
    /\ Entered = Len(Called.seq)
    /\ \E a \in 1..Len(handlers) :
        LET own == Len(Middlewares(Called.chain))
            before == Len(handlers[a].seq) - own
        IN /\ handlers[a].chain = Called.chain
           /\ a < call.hid
           /\ before >= 0
           /\ before < Len(Flat(Parent(Called.chain)))
           /\ SubSeq(handlers[a].seq, 1, before)
                = SubSeq(Flat(Parent(Called.chain)), 1, before)
           /\ SubSeq(handlers[a].seq, before + 1, Len(handlers[a].seq))
                = Middlewares(Called.chain)

-----------------------------------------------------------------------------
\* The middlewares the handler called got from the parent of its chain and
\* from the parent's ancestors.
FromParent == Len(Flat(Parent(Called.chain)))
\* The functions of the ResponseProcessors entered before depth d returned nil.
ResponsesNil(d) ==
    \A i \in DOMAIN trace :
        (trace[i].ev = "fn" /\ IsResp(trace[i]) /\ trace[i].depth < d) => trace[i].out = Nil

\* C23 as stated: when a RequestProcessor of the parent fails with e, a Handle
\* call on child.Exec(h) enters none of the child's own middlewares, does not
\* invoke h, and returns e.
C23_ParentFailureReturned ==
    (Done /\ Parent(Called.chain) # 0) =>
        \A d \in 1..FromParent :
            Failed(d) =>
                /\ Entered = d
                /\ ~TerminalCalled
                /\ ret.err = FnOut(d)

\* C23: when a RequestProcessor of the parent fails with e, a Handle call on
\* child.Exec(h) enters none of the child's own middlewares and does not
\* invoke h; it returns e when every ResponseProcessor registered before the
\* failing one returned nil, and otherwise the error the outermost of those
\* that did not return nil returned.
C23_ParentStopsChild ==
    (Done /\ Parent(Called.chain) # 0) =>
        \A d \in 1..FromParent :
            Failed(d) =>
                /\ Entered = d
                /\ \A i \in DOMAIN trace : trace[i].depth <= FromParent
                /\ ~TerminalCalled
                /\ ResponsesNil(d) => ret = [resp |-> Nil, err |-> FnOut(d)]
                /\ ~ResponsesNil(d) =>
                    LET first == CHOOSE k \in 1..(d - 1) :
                            /\ \E i \in FnCalls(k) : IsResp(trace[i]) /\ trace[i].out # Nil
                            /\ ResponsesNil(k)
                    IN ret = [resp |-> Nil, err |-> FnOut(first)]

\* A RequestProcessor of the parent failed; the child has a middleware of its
\* own, which was not entered, and the call returned the error.
C23_Witness ==
    /\ Done
    /\ Parent(Called.chain) # 0
    /\ Len(Middlewares(Called.chain)) >= 1
    /\ \E d \in 1..FromParent :
        /\ Failed(d)
        /\ Entered = d
        /\ ret = [resp |-> Nil, err |-> FnOut(d)]
    /\ ~TerminalCalled

-----------------------------------------------------------------------------
\* Where the function of the adapter at depth d was called.
FnAt(d) == CHOOSE i \in FnCalls(d) : TRUE

\* C24: in the handler of [m1..mn] where the function of the RequestProcessor
\* mk fails with e, m1..m(k-1) were entered in order before it and those that
\* act on the way in did so (a RequestProcessor's function returned nil, a
\* ContextProcessor's function ran), nothing of m(k+1)..mn and not the terminal
\* handler is invoked, and the call returns (nil, e) when each of m1..m(k-1) is
\* a RequestProcessor, a ContextProcessor, or a ResponseProcessor whose
\* function returned nil.
C24_ShortCircuit ==
    Done =>
        \A k \in 1..Len(Called.seq) :
            Failed(k) =>
                /\ Entered = k
                /\ \A d \in 1..(k - 1) :
                    /\ EnterAt(d) < FnAt(k)
                    /\ d > 1 => EnterAt(d - 1) < EnterAt(d)
                    /\ Called.seq[d].kind \in {"RequestProcessor", "ContextProcessor"} =>
                        /\ FnCalls(d) # {}
                        /\ FnAt(d) < FnAt(k)
                        /\ FnAt(d) = EnterAt(d) + 1
                    /\ Called.seq[d].kind = "RequestProcessor" => FnOut(d) = Nil
                    /\ Called.seq[d].kind = "ResponseProcessor" => FnAt(d) > FnAt(k)
                /\ \A i \in DOMAIN trace : trace[i].depth <= k
                /\ ~TerminalCalled
                /\ (/\ \A d \in 1..(k - 1) : Called.seq[d].kind \in Adapters
                    /\ ResponsesNil(k))
                        => ret = [resp |-> Nil, err |-> FnOut(k)]

\* The third of a ContextProcessor, a ResponseProcessor and a
\* RequestProcessor failed, the ResponseProcessor returned nil, and the call
\* returned the error of the third.
C24_Witness ==
    /\ Done
    /\ Len(Called.seq) >= 3
    /\ Failed(3)
    /\ {Called.seq[1].kind, Called.seq[2].kind} = {"ContextProcessor", "ResponseProcessor"}
    /\ ResponsesNil(3)
    /\ ret = [resp |-> Nil, err |-> FnOut(3)]
    /\ ~TerminalCalled

-----------------------------------------------------------------------------
\* The depths of the ResponseProcessors of the handler called.
ResponseDepths == {d \in 1..Len(Called.seq) : Called.seq[d].kind = "ResponseProcessor"}
\* What the terminal handler returned.
TerminalPair == LET t == CHOOSE i \in DOMAIN trace : trace[i].ev = "term" IN Pair(t)
\* The error as the ResponseProcessors at depth d and deeper leave it: what
\* the outermost of them that returned non-nil returned, the terminal
\* handler's error if none did.
ErrorLeft(d) ==
    LET replaced == {k \in ResponseDepths : k >= d /\ FnOut(k) # Nil}
    IN IF replaced = {} THEN TerminalPair[2]
       ELSE FnOut(CHOOSE k \in replaced : \A j \in replaced : k <= j)

\* C26: when the terminal handler is reached, the functions of the
\* ResponseProcessors r1..rn of a chain are called once each in the order
\* rn, ..., r1; each is given the error the ones registered after it left (the
\* terminal handler's error, or the non-nil error the last of them to return
\* one returned), and the handler returns the error the first-registered
\* ResponseProcessor that returned non-nil returned, the terminal handler's
\* error if none did.
C26_ResponseOrder ==
    (Done /\ TerminalCalled) =>
        /\ \A d \in ResponseDepths :
            /\ Cardinality(FnCalls(d)) = 1
            /\ trace[FnAt(d)].err = ErrorLeft(d + 1)
            /\ trace[FnAt(d)].resp = TerminalPair[1]
            /\ \A k \in ResponseDepths : d < k => FnAt(k) < FnAt(d)
        /\ ret.err = ErrorLeft(1)

\* Three ResponseProcessors ran: the innermost replaced the terminal
\* handler's error, the middle one saw the replacement and returned nil, the
\* outermost saw it too and replaced it again.
C26_Witness ==
    /\ Done
    /\ TerminalCalled
    /\ ResponseDepths = {1, 2, 3}
    /\ TerminalPair[2] # Nil
    /\ FnOut(3) # Nil
    /\ FnOut(3) # TerminalPair[2]
    /\ FnOut(2) = Nil
    /\ trace[FnAt(2)].err = FnOut(3)
    /\ trace[FnAt(1)].err = FnOut(3)
    /\ FnOut(1) # Nil
    /\ FnOut(1) # FnOut(3)
    /\ ret.err = FnOut(1)

-----------------------------------------------------------------------------
\* C27: the handler of a chain built of RequestProcessor, ResponseProcessor
\* and ContextProcessor adapters only returns the response the terminal
\* handler returned, and nil when the terminal handler was not invoked; so
\* does every handler inside it, and the function of every ResponseProcessor
\* is given that response.
C27_ResponsePassedThrough ==
    (Done /\ OnlyOf(Adapters)) =>
        LET resp == IF TerminalCalled THEN TerminalPair[1] ELSE Nil
        IN /\ ret.resp = resp
           /\ \A i \in DOMAIN trace :
                (trace[i].ev = "leave" \/ (trace[i].ev = "fn" /\ IsResp(trace[i])))
                    => trace[i].resp = resp

\* A RequestProcessor, a ContextProcessor and a ResponseProcessor ran around
\* a terminal handler that returned a response and an error; the
\* ResponseProcessor replaced the error, and the response came back.
C27_Witness ==
    /\ Done
    /\ OnlyOf(Adapters)
    /\ \A k \in Adapters : \E d \in 1..Len(Called.seq) : Called.seq[d].kind = k
    /\ TerminalCalled
    /\ TerminalPair[1] # Nil
    /\ TerminalPair[2] # Nil
    /\ ret.resp = TerminalPair[1]
    /\ ret.err # TerminalPair[2]

-----------------------------------------------------------------------------
\* req.Header.Get(field) after the writes made so far, each write setting the
\* field: the value of the last one.
HeaderGet(content, field) ==
    LET vals == content.Header.vals
        set == {i \in DOMAIN vals : vals[i][1] = field}
    IN IF set = {} THEN ""
       ELSE vals[CHOOSE i \in set : \A j \in set : j <= i][2]
\* The request as the terminal handler found it.
TerminalSeen == trace[CHOOSE i \in DOMAIN trace : trace[i].ev = "term"].seen
\* The positions of the RequestProcessors in a sequence of middlewares.
Setters(ms) == {i \in DOMAIN ms : ms[i].kind = "RequestProcessor"}

\* C25: when the child has a RequestProcessor of its own that sets a field,
\* the terminal handler of child.Exec(h) finds the field holding the value the
\* child's (last) RequestProcessor set, whatever RequestProcessors of the
\* parent set the same field: the parent's ran first.
C25_ChildOverrides ==
    (Done /\ TerminalCalled /\ Parent(Called.chain) # 0) =>
        LET own == Middlewares(Called.chain)
        IN Setters(own) # {} =>
            /\ HeaderGet(TerminalSeen, "X")
                = own[CHOOSE i \in Setters(own) : \A j \in Setters(own) : j <= i].fn
            /\ TerminalSeen.Header.vals
                = [i \in 1..Cardinality(Setters(Called.seq)) |->
                    <<"X", SelectSeq(Called.seq, LAMBDA m : m.kind = "RequestProcessor")[i].fn>>]

\* The parent sets the field to one value, the child to another, and the
\* terminal handler found the child's.
C25_Witness ==
    /\ Done
    /\ TerminalCalled
    /\ Parent(Called.chain) # 0
    /\ \E i \in Setters(Middlewares(Called.chain)),
          j \in Setters(Middlewares(Parent(Called.chain))) :
        /\ Middlewares(Called.chain)[i].fn # Middlewares(Parent(Called.chain))[j].fn
        /\ HeaderGet(TerminalSeen, "X") = Middlewares(Called.chain)[i].fn
        /\ \E k \in DOMAIN TerminalSeen.Header.vals :
            TerminalSeen.Header.vals[k][2] = Middlewares(Parent(Called.chain))[j].fn

-----------------------------------------------------------------------------
\* Reading the log of an Exec call.

\* The latest Exec call has returned to the client.
ExecDone == execStack = << >> /\ execLog # << >>
\* Positions in the log where Exec of a chain is entered at depth d (depth 1 is
\* the client's call, depth d + 1 the call of the parent's Exec from depth d),
\* and where the loop at depth d calls Exec of the middleware at index j.
ExecCalls(d) == {k \in DOMAIN execLog : execLog[k].op = "call" /\ execLog[k].depth = d}
ExecOf(d, j) ==
    {k \in DOMAIN execLog :
        execLog[k].op = "exec" /\ execLog[k].depth = d /\ execLog[k].i = j}
ExecDepths == {execLog[k].depth : k \in DOMAIN execLog}
The(S) == CHOOSE k \in S : TRUE

\* C30: an Exec call that has returned called Exec of each own middleware of
\* the chain once, the last-registered first, giving the last one the handler
\* it was called with and every other one the handler the middleware
\* registered after it produced; where the chain has a parent it then called
\* the parent's Exec once, on the handler the first-registered middleware
\* produced (on its own argument when the chain holds none), and never
\* otherwise; the same holds of the parent's Exec. What was returned is the
\* handler the outermost ancestor produced, and no step of a Handle call adds
\* to the log of Exec calls.
C30_ExecOncePerMiddleware ==
    /\ [](ExecDone =>
            /\ Cardinality(ExecCalls(1)) = 1
            /\ \A d \in ExecDepths :
                /\ Cardinality(ExecCalls(d)) = 1
                /\ LET call0 == execLog[The(ExecCalls(d))]
                       c == call0.c
                       ms == Middlewares(c)
                       n == Len(ms)
                       last == IF n = 0 THEN call0.arg ELSE execLog[The(ExecOf(d, 1))].out
                   IN /\ \A k \in DOMAIN execLog :
                            (execLog[k].op = "exec" /\ execLog[k].depth = d) =>
                                /\ execLog[k].i \in 1..n
                                /\ execLog[k].c = c
                                /\ k > The(ExecCalls(d))
                      /\ \A j \in 1..n :
                            /\ Cardinality(ExecOf(d, j)) = 1
                            /\ LET e == execLog[The(ExecOf(d, j))]
                               IN /\ e.m = ms[j]
                                  /\ e.out = MiddlewareExec(ms[j], e.arg)
                                  /\ j = n => e.arg = call0.arg
                                  /\ j < n =>
                                        /\ The(ExecOf(d, j + 1)) < The(ExecOf(d, j))
                                        /\ e.arg = execLog[The(ExecOf(d, j + 1))].out
                      /\ IF Parent(c) = 0 THEN ExecCalls(d + 1) = {}
                         ELSE /\ Cardinality(ExecCalls(d + 1)) = 1
                              /\ LET p == execLog[The(ExecCalls(d + 1))]
                                 IN /\ p.c = Parent(c)
                                    /\ p.arg = last
                                    /\ \A j \in 1..n :
                                        The(ExecOf(d, j)) < The(ExecCalls(d + 1))
            /\ LET made == handlers[Len(handlers)]
                   top == CHOOSE d \in ExecDepths : \A e \in ExecDepths : e <= d
                   c == execLog[The(ExecCalls(top))].c
                   n == Len(Middlewares(c))
               IN /\ made.chain = execLog[1].c
                  /\ HandlerFunc(made.terminal) = execLog[1].arg
                  /\ made.h = IF n = 0 THEN execLog[The(ExecCalls(top))].arg
                              ELSE execLog[The(ExecOf(top, 1))].out
                  /\ made.h = ChainExec(chains, arrays, made.chain, HandlerFunc(made.terminal)))
    /\ [][(call # NoCall \/ call' # NoCall) => UNCHANGED execVars]_vars

\* A child with two different middlewares of its own was composed: Exec of
\* the second was called before Exec of the first, the parent's Exec was
\* called on what the first produced, and the handler has since run to the
\* terminal handler.
C30_Witness ==
    /\ ExecDone
    /\ Done
    /\ call.hid = Len(handlers)
    /\ TerminalCalled
    /\ Parent(Called.chain) # 0
    /\ Len(Middlewares(Called.chain)) = 2
    /\ Middlewares(Called.chain)[1] # Middlewares(Called.chain)[2]
    /\ The(ExecOf(1, 2)) < The(ExecOf(1, 1))
    /\ ExecCalls(2) # {}
    /\ execLog[The(ExecCalls(2))].arg = execLog[The(ExecOf(1, 1))].out
    /\ The(ExecOf(1, 1)) < The(ExecCalls(2))

-----------------------------------------------------------------------------
\* C34 as stated: a step that appends to a chain leaves the sequence of every
\* other chain as it was, chains built from the same argument slice included.
C34_UseNeverChangesOthers ==
    [][\A c \in Chains : Appended(c) =>
        \A d \in Chains : d # c => MiddlewaresAfter(d) = Middlewares(d)]_vars

\* C34, amended: a step that appends to a chain leaves the sequence of every
\* other chain as it was, unless the slice of the other chain points into the
\* same backing array (both were built from one slice with spare capacity);
\* the step changes no chain's parent and adds exactly the chain's own
\* elements.
C34_UseChangesOthersOnlyIfShared ==
    [][\A c \in Chains : Appended(c) =>
        /\ \A d \in Chains : (d # c /\ ~SharesArray(c, d)) =>
                MiddlewaresAfter(d) = Middlewares(d)
        /\ \A d \in Chains :
                /\ chains'[d].parent = chains[d].parent
                /\ d # c => chains'[d].middlewares.len = chains[d].middlewares.len
        /\ Len(chains') = Len(chains)]_vars

\* A chain has grown by appends into an array of its own, next to another
\* chain that holds a middleware in a different array.
C34_Witness ==
    \E c, d \in Chains :
        /\ c # d
        /\ chains[c].middlewares.len >= 2
        /\ chains[c].middlewares.cap > chains[c].middlewares.len
        /\ ~SharesArray(c, d)
        /\ Len(Middlewares(d)) >= 1
        /\ Middlewares(d)[1] # Middlewares(c)[2]

-----------------------------------------------------------------------------
\* The middlewares of a chain in one sequence: those of its ancestors,
\* outermost ancestor first, then its own, a chain that is an element being
\* replaced, at its place, by its middlewares in one sequence.
RECURSIVE Expand(_)
RECURSIVE ExpandSeq(_)
ExpandSeq(ms) ==
    IF ms = << >> THEN << >>
    ELSE (IF Head(ms).kind = "Chain" THEN Expand(ChainOf(Head(ms))) ELSE <<Head(ms)>>)
         \o ExpandSeq(Tail(ms))
Expand(c) == ExpandSeq(Flat(c))

\* C31: the handler a chain C composes, C a child of P and P a child of the
\* parentless G, is the handler the parentless chain of G's, P's and C's
\* middlewares in one sequence composes around the same terminal handler, and
\* a Handle call on it enters exactly these middlewares in that order, then
\* the terminal handler, and leaves them in reverse; where P holds a chain X
\* as an element, the middlewares of X take the place of X in the sequence, in
\* their order.
C31_Flattens ==
    /\ handlers[1].chain = 4
    /\ Parent(4) = 3 /\ Parent(3) = 1 /\ Parent(1) = 0
    /\ Parent(5) = 0
    /\ \A i \in 1..Len(Middlewares(5)) : Middlewares(5)[i].kind # "Chain"
    /\ Middlewares(5) = Expand(4)
    /\ \E k \in 0..Len(Middlewares(3)) :
        LET before == SubSeq(Middlewares(3), 1, k)
            after == SubSeq(Middlewares(3), k + 1, Len(Middlewares(3)))
        IN /\ \A i \in 1..Len(before) : before[i].kind # "Chain"
           /\ after \in {<< >>, <<ChainRef(2)>>}
           /\ Middlewares(5) = Middlewares(1) \o before
                \o (IF after = << >> THEN << >> ELSE Middlewares(2))
                \o Middlewares(4)
    /\ handlers[1].h = handlers[2].h
    /\ handlers[1].terminal = handlers[2].terminal
    /\ Unwrap(handlers[1].h) = Middlewares(5)
    /\ Done =>
        /\ call.hid = 1
        /\ Entered <= Len(Middlewares(5))
        /\ Shape = Onion(Middlewares(5), Entered, Called.terminal, ~Stopped)
        /\ ~Stopped => Entered = Len(Middlewares(5))

\* G, P and C hold different middlewares, P holds the chain X after its own
\* middleware, X holds one, and the handler of C has run through the four to
\* the terminal handler.
C31_Witness ==
    /\ Done
    /\ TerminalCalled
    /\ Len(Middlewares(1)) = 1
    /\ Len(Middlewares(2)) = 1
    /\ Middlewares(3) = <<Middlewares(3)[1], ChainRef(2)>>
    /\ Len(Middlewares(4)) = 1
    /\ Cardinality({Middlewares(1)[1], Middlewares(3)[1], Middlewares(2)[1],
                    Middlewares(4)[1]}) = 4
    /\ [i \in 1..4 |-> Shape[i]] =
        <<<<"enter", 1, Middlewares(1)[1]>>, <<"enter", 2, Middlewares(3)[1]>>,
          <<"enter", 3, Middlewares(2)[1]>>, <<"enter", 4, Middlewares(4)[1]>>>>

-----------------------------------------------------------------------------
\* Exec and Handle in one thread, Use in another.

\* The chain the first thread called Exec on, and the entries of execLog of a
\* kind.
ExecRoot == execLog[1].c
ExecEvents(op) == {j \in DOMAIN execLog : execLog[j].op = op}
\* The second thread appends, or has appended, to chain c.
UseOn(c) == appending.pc # "none" /\ appending.c = c

\* C32: while a second thread appends with Use to a chain obtained by Copy,
\* Exec and Handle on the original are what they are without that thread,
\* whatever the interleaving: no read of Exec meets a write of Use, every turn
\* of the loop reads the element of the original's (or its parent's) sequence,
\* the composed handler is the one of the original's sequence, a run of it
\* enters exactly that sequence, and the copy never shares an array with the
\* original, whose sequence the Use leaves as it is.
C32_CopyIsolated ==
    /\ [](\A k \in Chains :
            (copyOf[k] # 0 /\ (appending = NoUse \/ UseOn(k))) =>
                LET o == copyOf[k] IN
                /\ chains[k].middlewares.arr # 0 =>
                        chains[k].middlewares.arr # chains[o].middlewares.arr
                /\ (execLog # << >> /\ ExecRoot = o) =>
                    /\ ExecEvents("race") = {}
                    /\ ExecEvents("panic") = {}
                    /\ \A j \in ExecEvents("exec") :
                            execLog[j].m = Middlewares(execLog[j].c)[execLog[j].i]
                    /\ handlers # << >> =>
                        /\ handlers[1].h = ChainExec(chains, arrays, o, HandlerFunc("h1"))
                        /\ Unwrap(handlers[1].h) = Flat(o)
                    /\ Done =>
                        /\ Entered <= Len(Flat(o))
                        /\ Shape = Onion(Flat(o), Entered, "h1", ~Stopped)
                        /\ ~Stopped => Entered = Len(Flat(o)))
    /\ [][\A k \in Chains : (copyOf[k] # 0 /\ UseOn(k)') =>
            \A d \in Chains : d # k => MiddlewaresAfter(d) = Middlewares(d)]_vars
\* The Use on the copy is between its append and its assignment while Exec
\* on the original, a child with middlewares of its own, is inside its loop;
\* and a run of the handler is under way while the Use is.
C32_Witness ==
    \E k \in Chains :
        /\ copyOf[k] # 0
        /\ UseOn(k)
        /\ appending.pc = "store"
        /\ execLog # << >>
        /\ ExecRoot = copyOf[k]
        /\ Len(Middlewares(copyOf[k])) >= 1
        /\ Parent(copyOf[k]) # 0
        /\ Len(Middlewares(Parent(copyOf[k]))) >= 1
        /\ appending.m # Middlewares(copyOf[k])[1]
        /\ \/ ExecAt("loop") /\ ExecTop.c = copyOf[k] /\ ExecTop.i >= 1
           \/ stack # << >> /\ Entered >= 1

\* The first thread called Exec on the child c while the second appends, or
\* has appended, to the base of c.
ChildVersusBase(c) ==
    /\ Parent(c) # 0
    /\ UseOn(Parent(c))
    /\ execLog # << >>
    /\ ExecRoot = c
\* The own sequence of c, which ChildChain gave it: what Flat(c) ends with.
OwnOf(seq, c) ==
    SubSeq(seq, Len(seq) - Len(Middlewares(c)) + 1, Len(seq))

=============================================================================
